---- MODULE Spec2Model ----
(***************************************************************************)
(* Model of the catalog export worker: runCatalogJob (the job              *)
(* orchestrator), waitForBulkResult (bulk polling), downloadCovers (the    *)
(* image acquirer with its worker pool, downloadWithRetry, createIssue and *)
(* incrementCounts) and the BullMQ worker's "failed" handler.              *)
(*                                                                         *)
(* Every action is one resumption of an async function: the effect of the  *)
(* awaited call followed by the synchronous code up to the next await.     *)
(*                                                                         *)
(* Spec and FairSpec are the run of a job.  ExtractSpec is the product     *)
(* extractor on its own (parseBulkResults, fetchProductsPaginated) and     *)
(* ArrangeSpec the grouper/sorter (sortRecords, buildGroupedItems), each   *)
(* started on every input of a bounded set.  PdfSpec is the PDF layout     *)
(* engine (buildPdf with its drawing functions), OverlaySpec the overlay   *)
(* rectangle (resolveOverlayStyle), ZipSpec the archive builder            *)
(* (buildImagesZip with applyPriceOverlay) and PriceSpec formatPrice, in   *)
(* the same way, and RecordSpec buildProductRecord.                        *)
(***************************************************************************)
EXTENDS Integers, Sequences, FiniteSets, Bags, TLC

VARIABLES
  job,          \* the Job row: status, progressPercent, currentStep, countsJson, errorSummary
  pc,           \* position of runCatalogJob (the await it is suspended on)
  err,          \* message of the error runCatalogJob rejected with
  handler,      \* worker.on("failed") handler: "idle" or "done"
  bulk,         \* locals of waitForBulkResult: elapsed ms, polls issued, last poll response
  bulkError,    \* the error the catch block around the bulk path caught ("none": none)
  source,       \* which path produced the local `products`: "none", "bulk" or "fallback"
  records,      \* sortedRecords: coverUrl present?, localCoverPath/coverFileName set?
  queue,        \* downloadCovers' shared queue (indices into records)
  hasFailures,  \* downloadCovers' flag
  workers,      \* the async workers of downloadCovers
  issues,       \* the JobIssue table: a bag of rows (append-only)
  files,        \* JobFile rows created by the run
  statusWrites, \* history: every status value written to the Job row, and by whom
  hist          \* history per record: claims, fetches, successful attempt, count updates

\* the product extractor on its own: parseBulkResults over a result stream and
\* fetchProductsPaginated against a catalog service
VARIABLES
  extract,      \* "idle"; "parsing", "parsed"; "paging", "paged" or "threw"
  stream,       \* the JSONL result: its lines and the index of the next line to read
  bulkProducts, \* parseBulkResults' Map, as the sequence of its values in insertion order
  pager,        \* fetchProductsPaginated: settings, cursor, hasNext, products, history
  output        \* the array the extractor returned

extractVars == <<extract, stream, bulkProducts, pager, output>>

\* the grouper/sorter on its own: sortRecords, then buildGroupedItems
VARIABLES
  arrange,      \* "idle", "start", "sorted" or "grouped"
  exportSettings, \* the ExportSettings read here: sortOrder, grouping, collectionIds
  unsorted,     \* the records in extraction order
  sorted,       \* the array sortRecords returned
  items         \* the array buildGroupedItems returned

arrangeVars == <<arrange, exportSettings, unsorted, sorted, items>>

\* the PDF layout engine on its own: buildPdf
VARIABLES
  pdf,          \* "idle"; "start", "layout", "saved", "threw" or "storeFailed"
  pdfParams,    \* params of buildPdf: records and settings
  groupedItems, \* the array buildGroupedItems returned to buildPdf
  index,        \* the loop's position in groupedItems (0-based, as in the code)
  pages         \* the pages of the document, each the sequence of its drawing calls

pdfVars == <<pdf, pdfParams, groupedItems, index, pages>>

\* resolveOverlayStyle on its own
VARIABLES
  overlayCall,  \* the arguments: overlay (its rect), imageWidth, imageHeight
  resolved      \* the object it returned

overlayVars == <<overlayCall, resolved>>

\* the archive builder on its own: buildImagesZip
VARIABLES
  zip,          \* "idle"; "start", "records", "finalize", "closing", "stat",
                \* "returned" or "threw"
  zipParams,    \* params of buildImagesZip: records, settings, manifestKey
  visited,      \* number of records the for loop has been through
  archive,      \* the archive: its entries in append order, finalized?, stream closed?
  warnings      \* the product ids logged with zip_image_failed

zipVars == <<zip, zipParams, visited, archive, warnings>>

\* formatPrice on its own
VARIABLES
  priceCall,    \* the arguments: price, currencyPrefix
  priceText     \* the value it returned

priceVars == <<priceCall, priceText>>

\* buildProductRecord on its own
VARIABLES
  buildCall,    \* the arguments: product (the accumulator), settings
  productRecord \* the ProductRecord it returned

recordVars == <<buildCall, productRecord>>

\* the variables of the output stage's computations
outputVars == <<pdfVars, overlayVars, zipVars, priceVars>>

\* the variables of the computations that are modelled apart from the run
pureVars == <<extractVars, arrangeVars, outputVars, recordVars>>

mainVars == <<job, pc, err, handler, bulk, bulkError, source, records, queue,
              hasFailures, workers, issues, files, statusWrites, hist>>

vars == <<mainVars, pureVars>>

----------------------------------------------------------------------------
(* Bounds of the model *)

\* largest number of products an extraction returns
MaxRecords == 3

\* size of the worker pool of downloadCovers.  The source fixes it at 5
\* (pipeline.ts:642); the pool is scaled down so that the queue still holds
\* records after every worker has claimed its first one.
concurrency == 2

\* most lines of a bulk result stream
MaxLines == 3

\* most page requests fetchProductsPaginated makes before the model stops it
MaxPages == 2

\* most records of a list that is sorted and grouped
MaxItems == 3

\* buildPdf's records: up to MaxProducts of them, one more than two columns of
\* rows hold on a page, and up to MaxCovers of them when the covers differ
MaxProducts == 7
MaxCovers == 2

\* longest side of an image, in pixels
MaxSide == 4

\* largest number of variants in a variant table
MaxVariants == 2

\* an accumulator has up to MaxImages image urls
MaxImages == 2

\* largest number of records buildImagesZip is called with
MaxEntries == 2

\* most edges of a page.  The source asks for 250 (pipeline.ts:515); scaled
\* down, a page still has a first and a last edge.
pageSize == 2

(* Program constants *)
bulkPollIntervalMs == 2000
bulkMaxWaitMs == 10 * 60 * 1000
downloadAttempts == 3

Workers == 1..concurrency

----------------------------------------------------------------------------
(* countsJson: a JSON object, modelled as a function from its keys *)

CountKeys == {"productsTotal", "productsProcessed", "imagesDownloaded", "imagesFailed"}

\* countsJson is NULL / the object {}
NoCounts == [k \in {} |-> 0]

\* `counts.key ?? 0`
Get(counts, key) == IF key \in DOMAIN counts THEN counts[key] ELSE 0

\* the object literal written when the image stage starts (runCatalogJob)
StageCounts(n) ==
  [k \in {"productsTotal", "productsProcessed"} |->
     IF k = "productsTotal" THEN n ELSE 0]

\* the object literal written by downloadCovers before it starts its workers
InitialCounts(n) ==
  [k \in CountKeys |-> IF k = "productsTotal" THEN n ELSE 0]

\* the deltas downloadCovers passes to incrementCounts
FailedDelta ==
  [k \in {"imagesFailed", "productsProcessed"} |-> 1]

SuccessDelta ==
  [k \in {"imagesDownloaded", "productsProcessed"} |-> 1]

NoDelta == [k \in {} |-> 0]

UpdatedDropsTotal(counts, delta) ==
  [k \in CountKeys |->
     IF k = "productsTotal" THEN 0
     ELSE Get(counts, k) + Get(delta, k)]

\* incrementCounts: the `updated` object computed from the row that was read
Updated(counts, delta) ==
  [k \in CountKeys |->
     IF k = "productsTotal" THEN Get(counts, k)
     ELSE Get(counts, k) + Get(delta, k)]

CountsUpdateWithProgress(j, updated) ==
  [j EXCEPT !.counts = updated,
            !.progressPercent =
               IF Get(updated, "productsTotal") = 0 THEN 0
               ELSE (100 * Get(updated, "productsProcessed")) \div Get(updated, "productsTotal")]

\* incrementCounts, lines 768-771: the update writes countsJson and nothing else
CountsUpdate(j, updated) == [j EXCEPT !.counts = updated]

----------------------------------------------------------------------------
(* Job row *)

InitialJob ==
  [status |-> "QUEUED", progressPercent |-> 0, currentStep |-> "none",
   counts |-> NoCounts, errorSummary |-> "none"]

FinalStatusAlwaysCompleted(failures) == "COMPLETED"

FinalStatusFailed(failures) == IF failures THEN "FAILED" ELSE "COMPLETED"

\* runCatalogJob: `imageResult.hasFailures ? "PARTIAL" : "COMPLETED"`
FinalStatus(failures) == IF failures THEN "PARTIAL" ELSE "COMPLETED"

\* error messages
ErrSession == "Missing offline session"
ErrJobStore == "Job store write failed"
ErrByteStore == "Byte store write failed"
ErrCatalog == "Catalog query failed"
ErrPdf == "PDF build failed"
ErrZip == "ZIP build failed"

----------------------------------------------------------------------------
(* Worker pool state *)

IdleWorker(p) ==
  [pc |-> p, rec |-> 0, attempt |-> 0, delta |-> NoDelta, updated |-> NoCounts]

NoHist ==
  [claims |-> 0, fetches |-> 0, okAttempt |-> 0, updates |-> <<>>, finished |-> FALSE]

NoBulk == [elapsed |-> 0, polls |-> 0, last |-> "none"]

\* a string property that is absent from a JSON object (undefined), and JSON
\* null; an optional boolean is <<>> when absent and <<b>> when present
Undefined == "undefined"
Null == "null"
Absent == <<>>

NoStream == [lines |-> <<>>, at |-> 1]

\* fetchProductsPaginated, lines 507-509: the locals before the loop
NoPager ==
  [settings |-> [includeDrafts |-> Absent, scopeType |-> "ALL_PRODUCTS", productIds |-> <<>>],
   cursor |-> <<Null>>, hasNext |-> TRUE, products |-> <<>>,
   requests |-> <<>>, responses |-> <<>>]

\* a function that is not running has no locals: the record without fields
NoLocals == <<>>

\* the extractor is not running
ExtractIdle ==
  /\ extract = "idle"
  /\ stream = NoStream
  /\ bulkProducts = <<>>
  /\ pager = NoLocals
  /\ output = <<>>

\* the grouper/sorter is not running
ArrangeIdle ==
  /\ arrange = "idle"
  /\ exportSettings = NoLocals
  /\ unsorted = <<>>
  /\ sorted = <<>>
  /\ items = <<>>

\* the PDF layout engine is not running
PdfIdle ==
  /\ pdf = "idle"
  /\ pdfParams = NoLocals
  /\ groupedItems = <<>>
  /\ index = 0
  /\ pages = <<>>

\* resolveOverlayStyle is not running
OverlayIdle ==
  /\ overlayCall = NoLocals
  /\ resolved = NoLocals

\* the archive builder is not running
ZipIdle ==
  /\ zip = "idle"
  /\ zipParams = NoLocals
  /\ visited = 0
  /\ archive = NoLocals
  /\ warnings = <<>>

\* formatPrice is not running
PriceIdle ==
  /\ priceCall = NoLocals
  /\ priceText = Null

OutputIdle == PdfIdle /\ OverlayIdle /\ ZipIdle /\ PriceIdle

\* buildProductRecord is not running
RecordIdle ==
  /\ buildCall = NoLocals
  /\ productRecord = NoLocals

MainInit ==
  /\ job = InitialJob
  /\ pc = "queued"
  /\ err = "none"
  /\ handler = "idle"
  /\ bulk = NoBulk
  /\ bulkError = "none"
  /\ source = "none"
  /\ records = <<>>
  /\ queue = <<>>
  /\ hasFailures = FALSE
  /\ workers = [w \in Workers |-> IdleWorker("unborn")]
  /\ issues = EmptyBag
  /\ files = <<>>
  /\ statusWrites = <<>>
  /\ hist = <<>>

Init == MainInit /\ ExtractIdle /\ ArrangeIdle /\ OutputIdle /\ RecordIdle

----------------------------------------------------------------------------
(* runCatalogJob: helpers *)

imageVars == <<records, queue, hasFailures, workers, issues, hist>>

\* an error propagates out of runCatalogJob: its promise rejects with `msg`
Reject(msg) == pc' = "rejected" /\ err' = msg

\* history of status writes
WriteStatus(by, s) ==
  statusWrites' = Append(statusWrites, [by |-> by, status |-> s])

OnBulkErrorRethrowTimeout(reason) ==
  IF reason = "Bulk operation timed out" THEN "rejected" ELSE "fallbackLabel"

\* the catch block around the bulk path catches every error and goes on with
\* the fallback: it first awaits the update of the step label
OnBulkError(reason) == "fallbackLabel"

\* startBulkOperation, waitForBulkResult or parseBulkResults threw `reason`
BulkFail(reason) ==
  /\ pc' = OnBulkError(reason)
  /\ bulkError' = reason
  /\ err' = IF OnBulkError(reason) = "rejected" THEN reason ELSE err
  /\ bulk' = NoBulk

\* the products an extraction can deliver: how many, and which have a cover URL
Extractions ==
  UNION {[1..n -> [hasCover : BOOLEAN, localCoverPath : {FALSE}]] : n \in 0..MaxRecords}

----------------------------------------------------------------------------
(* runCatalogJob, lines 98-132: load the job and the session, mark RUNNING *)

RunStart ==
  /\ pc = "queued"
  /\ \/ \* no offline session: throws before any write
        /\ Reject(ErrSession)
        /\ UNCHANGED <<job, statusWrites>>
     \/ \* the update to RUNNING fails
        /\ Reject(ErrJobStore)
        /\ UNCHANGED <<job, statusWrites>>
     \/ /\ job' = [job EXCEPT !.status = "RUNNING", !.progressPercent = 5,
                              !.currentStep = "Collecting products",
                              !.errorSummary = "none"]
        /\ WriteStatus("runCatalogJob", "RUNNING")
        /\ pc' = "bulkStart"
        /\ err' = err
  /\ UNCHANGED <<handler, bulk, bulkError, source, files>>
  /\ UNCHANGED imageVars
  /\ UNCHANGED pureVars

(* startBulkOperation, lines 349-372; on success waitForBulkResult starts:   *)
(* startedAt is taken, the first timeout test passes, the first poll is sent *)
StartBulkOperation ==
  /\ pc = "bulkStart"
  /\ \/ BulkFail("Bulk operation failed to start")
     \/ /\ pc' = "bulkPoll"
        /\ bulk' = [elapsed |-> 0, polls |-> 1, last |-> "none"]
        /\ UNCHANGED <<bulkError, err>>
  /\ UNCHANGED <<job, handler, source, files, statusWrites>>
  /\ UNCHANGED imageVars
  /\ UNCHANGED pureVars

\* what a status poll can answer
PollAnswers ==
  {"THROWN", "MISSING", "CREATED", "RUNNING", "COMPLETED_WITH_URL",
   "COMPLETED_NO_URL", "FAILED", "CANCELED"}

\* node.status of an answer
PollStatus(a) ==
  IF a \in {"COMPLETED_WITH_URL", "COMPLETED_NO_URL"} THEN "COMPLETED" ELSE a

\* how long the answer to a query can take: no time, or as long as the limit
QueryLatencies == {0, bulkMaxWaitMs}

\* waitForBulkResult, lines 398-411: what the loop body does with an answer
WaitOutcome(a) ==
  CASE a = "THROWN" -> "Bulk status query failed"
    [] a = "MISSING" -> "Bulk operation missing"
    [] a = "COMPLETED_WITH_URL" -> "return"
    [] a = "FAILED" -> "Bulk operation FAILED"
    [] a = "CANCELED" -> "Bulk operation CANCELED"
    [] OTHER -> "sleep"

(* waitForBulkResult, lines 383-411: the answer to a poll arrives *)
BulkPollResponse ==
  /\ pc = "bulkPoll"
  /\ \E a \in PollAnswers, lat \in QueryLatencies :
       LET out == WaitOutcome(a) IN
       IF out = "return"
         THEN \* parseBulkResults starts to fetch the result url
              /\ pc' = "bulkParse"
              /\ bulk' = NoBulk
              /\ UNCHANGED <<bulkError, err>>
       ELSE IF out = "sleep"
         THEN /\ pc' = "bulkSleep"
              /\ bulk' = [bulk EXCEPT !.elapsed = @ + lat, !.last = a]
              /\ UNCHANGED <<bulkError, err>>
       ELSE BulkFail(out)
  /\ UNCHANGED <<job, handler, source, files, statusWrites>>
  /\ UNCHANGED imageVars
  /\ UNCHANGED pureVars

\* waitForBulkResult, line 380: `Date.now() - startedAt > bulkMaxWaitMs`
TimedOut(elapsed) == elapsed > bulkMaxWaitMs

(* waitForBulkResult, lines 379-383 and 411: the sleep ends, the loop tests *)
(* the time limit and sends the next poll                                    *)
BulkSleepDone ==
  /\ pc = "bulkSleep"
  /\ LET now == bulk.elapsed + bulkPollIntervalMs IN
       IF TimedOut(now)
         THEN BulkFail("Bulk operation timed out")
         ELSE /\ pc' = "bulkPoll"
              /\ bulk' = [bulk EXCEPT !.elapsed = now, !.polls = @ + 1]
              /\ UNCHANGED <<bulkError, err>>
  /\ UNCHANGED <<job, handler, source, files, statusWrites>>
  /\ UNCHANGED imageVars
  /\ UNCHANGED pureVars

(* parseBulkResults, lines 415-499, then lines 154-167: the records are   *)
(* built and sorted and the update to 35% is sent                         *)
ParseBulkResults ==
  /\ pc = "bulkParse"
  /\ \/ /\ BulkFail("Failed to download bulk results")
        /\ UNCHANGED <<source, records, hist>>
     \/ /\ \E recs \in Extractions :
             /\ records' = recs
             /\ hist' = [r \in DOMAIN recs |-> NoHist]
        /\ source' = "bulk"
        /\ pc' = "update35"
        /\ UNCHANGED <<bulk, bulkError, err>>
  /\ UNCHANGED <<job, handler, files, statusWrites, queue, hasFailures, workers, issues>>
  /\ UNCHANGED pureVars

(* runCatalogJob, lines 143-151: the catch block's update of the step label *)
FallbackLabel ==
  /\ pc = "fallbackLabel"
  /\ \/ /\ Reject(ErrJobStore)
        /\ UNCHANGED job
     \/ /\ job' = [job EXCEPT !.currentStep = "Collecting products (fallback)"]
        /\ pc' = "fallbackFetch"
        /\ err' = err
  /\ UNCHANGED <<handler, bulk, bulkError, source, files, statusWrites>>
  /\ UNCHANGED imageVars
  /\ UNCHANGED pureVars

(* fetchProductsPaginated, lines 501-576, then lines 154-167 *)
FetchProductsPaginated ==
  /\ pc = "fallbackFetch"
  /\ \/ /\ Reject(ErrCatalog)
        /\ UNCHANGED <<source, records, hist, bulkError>>
     \/ /\ \E recs \in Extractions :
             /\ records' = recs
             /\ hist' = [r \in DOMAIN recs |-> NoHist]
        /\ source' = "fallback"
        /\ pc' = "update35"
        /\ err' = err
        /\ UNCHANGED bulkError
  /\ UNCHANGED <<job, handler, bulk, files, statusWrites, queue, hasFailures, workers, issues>>
  /\ UNCHANGED pureVars

----------------------------------------------------------------------------
(* downloadCovers, lines 637-710 *)

(* runCatalogJob, lines 157-167: the update to 35% takes effect; then      *)
(* downloadCovers copies the records into its queue and sends its own      *)
(* update of countsJson (lines 642-656).  The locals of the extraction     *)
(* (`products`, the caught `error`) are dead from here on.                 *)
Update35 ==
  /\ pc = "update35"
  /\ \/ /\ Reject(ErrJobStore)
        /\ UNCHANGED <<job, queue, hasFailures, source, bulkError>>
     \/ /\ job' = [job EXCEPT !.counts = StageCounts(Len(records)),
                              !.progressPercent = 35,
                              !.currentStep = "Downloading cover images"]
        /\ queue' = [i \in 1..Len(records) |-> i]
        /\ hasFailures' = FALSE
        /\ source' = "none"
        /\ bulkError' = "none"
        /\ pc' = "coversInit"
        /\ err' = err
  /\ UNCHANGED <<handler, bulk, files, statusWrites,
                 records, workers, issues, hist>>
  /\ UNCHANGED pureVars

ShiftTwice(q) == IF Len(q) > 1 THEN Tail(Tail(q)) ELSE <<>>

\* `queue.shift()`: what is left of the queue after its head was taken
Shift(q) == Tail(q)

\* the part of the pool's state a worker's synchronous code touches
PoolState == [queue |-> queue, workers |-> workers, hasFailures |-> hasFailures, hist |-> hist]

LoopHeadNoIssue(st, w) ==
  IF st.queue = <<>>
    THEN [st EXCEPT !.workers[w] = IdleWorker("done")]
    ELSE LET r == Head(st.queue)
             claimed == [st EXCEPT !.queue = Shift(@), !.hist[r].claims = @ + 1]
         IN  IF ~records[r].hasCover
               THEN [claimed EXCEPT
                       !.hasFailures = TRUE,
                       !.workers[w] = [IdleWorker("incRead") EXCEPT
                                         !.rec = r, !.delta = FailedDelta]]
               ELSE [claimed EXCEPT
                       !.workers[w] = [IdleWorker("fetching") EXCEPT !.rec = r],
                       !.hist[r].fetches = @ + 1]

(* lines 659-678: the head of the worker loop, up to the first await.  With a *)
(* record from the queue the worker either flags the missing cover and sends  *)
(* createIssue, or enters downloadWithRetry, which sends the first fetch.     *)
LoopHead(st, w) ==
  IF st.queue = <<>>
    THEN [st EXCEPT !.workers[w] = IdleWorker("done")]
    ELSE LET r == Head(st.queue)
             claimed == [st EXCEPT !.queue = Shift(@), !.hist[r].claims = @ + 1]
         IN  IF ~records[r].hasCover
               THEN [claimed EXCEPT
                       !.hasFailures = TRUE,
                       !.workers[w] = [IdleWorker("issueMissing") EXCEPT !.rec = r]]
               ELSE [claimed EXCEPT
                       !.workers[w] = [IdleWorker("fetching") EXCEPT !.rec = r],
                       !.hist[r].fetches = @ + 1]

RECURSIVE SpawnPerRecord(_, _)
SpawnPerRecord(st, w) ==
  IF w > concurrency
    THEN IF st.queue = <<>> THEN st ELSE LoopHead(st, concurrency)
    ELSE SpawnPerRecord(LoopHead(st, w), w + 1)

\* line 658: Array.from({ length: concurrency }).map(async ...) runs every
\* worker, in order, up to its first await
RECURSIVE Spawn(_, _)
Spawn(st, w) == IF w > concurrency THEN st ELSE Spawn(LoopHead(st, w), w + 1)

SetPool(st) ==
  /\ queue' = st.queue
  /\ workers' = st.workers
  /\ hasFailures' = st.hasFailures
  /\ hist' = st.hist

(* lines 646-658: the update of countsJson takes effect, the workers start *)
DownloadCoversInit ==
  /\ pc = "coversInit"
  /\ \/ /\ Reject(ErrJobStore)
        /\ UNCHANGED <<job, queue, workers, hasFailures, hist>>
     \/ /\ job' = [job EXCEPT !.counts = InitialCounts(Len(records))]
        /\ SetPool(Spawn(PoolState, 1))
        /\ pc' = "workers"
        /\ err' = err
  /\ UNCHANGED <<handler, bulk, bulkError, source, files, statusWrites, records, issues>>
  /\ UNCHANGED pureVars

FetchOutcomes == {"ok", "notOk", "error"}

AfterAttemptGivesUpEarly(attempt, attempts, outcome) ==
  CASE outcome = "ok" -> "result"
    [] outcome = "notOk" -> IF attempt + 1 < attempts THEN "retry" ELSE "null"
    [] OTHER -> IF attempt >= attempts - 2 THEN "null" ELSE "retry"

AfterAttemptRetriesSuccess(attempt, attempts, outcome) ==
  CASE outcome = "ok" -> IF attempt = 0 /\ attempts > 1 THEN "retry" ELSE "result"
    [] outcome = "notOk" -> IF attempt + 1 < attempts THEN "retry" ELSE "null"
    [] OTHER -> IF attempt = attempts - 1 THEN "null" ELSE "retry"

\* downloadWithRetry, lines 712-731: what the loop does after the fetch of
\* `attempt` (from 0): a response that is ok returns the bytes; one that is not
\* ok continues the loop; an exception returns null on the last attempt and
\* otherwise falls through to the next iteration; the loop's end returns null
AfterAttempt(attempt, attempts, outcome) ==
  CASE outcome = "ok" -> "result"
    [] outcome = "notOk" -> IF attempt + 1 < attempts THEN "retry" ELSE "null"
    [] OTHER -> IF attempt = attempts - 1 THEN "null"
                ELSE IF attempt + 1 < attempts THEN "retry" ELSE "null"

(* lines 678-697 and 712-731: the response (or exception) of a fetch arrives *)
FetchResponse(w) ==
  /\ pc \in {"workers", "rejected"}
  /\ workers[w].pc = "fetching"
  /\ \E outcome \in FetchOutcomes :
       LET r == workers[w].rec
           a == workers[w].attempt
           next == AfterAttempt(a, downloadAttempts, outcome)
           \* history: the attempt (from 1) of the first response that was ok
           seen == IF outcome = "ok" /\ hist[r].okAttempt = 0
                     THEN [hist EXCEPT ![r].okAttempt = a + 1] ELSE hist
       IN  CASE next = "result" ->
                  \* localStorageAdapter.write is sent
                  /\ workers' = [workers EXCEPT ![w].pc = "storing"]
                  /\ hist' = seen
                  /\ UNCHANGED hasFailures
             [] next = "retry" ->
                  \* the next fetch is sent
                  /\ workers' = [workers EXCEPT ![w].attempt = a + 1]
                  /\ hist' = [seen EXCEPT ![r].fetches = @ + 1]
                  /\ UNCHANGED hasFailures
             [] OTHER ->
                  \* downloadWithRetry returns null; createIssue is sent
                  /\ hasFailures' = TRUE
                  /\ workers' = [workers EXCEPT ![w].pc = "issueFailed"]
                  /\ hist' = seen
  /\ UNCHANGED <<job, pc, err, handler, bulk, bulkError, source, files,
                 statusWrites, records, queue, issues>>
  /\ UNCHANGED pureVars

IssueSeverityByType(type) == IF type = "MISSING_COVER" THEN "ERROR" ELSE "WARN"

\* createIssue, line 746: every issue is created with severity WARN
IssueSeverity(type) == "WARN"

\* createIssue, lines 743-752: the JobIssue row
IssueRow(type, r) ==
  [type |-> type, severity |-> IssueSeverity(type), productId |-> r]

(* lines 665-674 and 681-690: createIssue has inserted its row; *)
(* incrementCounts is called and sends its findUnique           *)
IssueCreated(w) ==
  /\ pc \in {"workers", "rejected"}
  /\ workers[w].pc \in {"issueMissing", "issueFailed"}
  /\ issues' = issues (+) SetToBag({
        IssueRow(IF workers[w].pc = "issueMissing" THEN "MISSING_COVER"
                 ELSE "IMAGE_DOWNLOAD_FAILED", workers[w].rec)})
  /\ workers' = [workers EXCEPT ![w].pc = "incRead", ![w].delta = FailedDelta]
  /\ UNCHANGED <<job, pc, err, handler, bulk, bulkError, source, files,
                 statusWrites, records, queue, hasFailures, hist>>
  /\ UNCHANGED pureVars

(* lines 694-704: the bytes are stored; the record gains its local path and *)
(* archive entry name; incrementCounts is called and sends its findUnique   *)
StoreWritten(w) ==
  /\ pc \in {"workers", "rejected"}
  /\ workers[w].pc = "storing"
  /\ records' = [records EXCEPT ![workers[w].rec].localCoverPath = TRUE]
  /\ workers' = [workers EXCEPT ![w].pc = "incRead", ![w].delta = SuccessDelta]
  /\ UNCHANGED <<job, pc, err, handler, bulk, bulkError, source, files,
                 statusWrites, queue, hasFailures, issues, hist>>
  /\ UNCHANGED pureVars

(* incrementCounts, lines 760-771: findUnique returns the row; `updated` is *)
(* computed from it and the update is sent                                  *)
IncrementCountsRead(w) ==
  /\ pc \in {"workers", "rejected"}
  /\ workers[w].pc = "incRead"
  /\ workers' = [workers EXCEPT ![w].pc = "incWrite",
                                ![w].updated = Updated(job.counts, workers[w].delta)]
  /\ UNCHANGED <<job, pc, err, handler, bulk, bulkError, source, files,
                 statusWrites, records, queue, hasFailures, issues, hist>>
  /\ UNCHANGED pureVars

(* incrementCounts, lines 768-771: the update takes effect; the worker goes *)
(* back to the head of its loop                                             *)
IncrementCountsWrite(w) ==
  /\ pc \in {"workers", "rejected"}
  /\ workers[w].pc = "incWrite"
  /\ job' = CountsUpdate(job, workers[w].updated)
  /\ LET r == workers[w].rec
         st == [PoolState EXCEPT !.hist[r].updates = Append(@, workers[w].delta),
                                 !.hist[r].finished = TRUE]
     IN  SetPool(LoopHead(st, w))
  /\ UNCHANGED <<pc, err, handler, bulk, bulkError, source, files,
                 statusWrites, records, issues>>
  /\ UNCHANGED pureVars

(* an awaited store call of a worker throws: the worker's promise rejects,  *)
(* Promise.all (line 708) rejects and with it runCatalogJob, unless another *)
(* worker's error has rejected it before                                    *)
WorkerThrows(w) ==
  /\ pc \in {"workers", "rejected"}
  /\ workers[w].pc \in {"issueMissing", "issueFailed", "storing", "incRead", "incWrite"}
  /\ workers' = [workers EXCEPT ![w] = IdleWorker("threw")]
  /\ IF pc = "workers"
       THEN Reject(IF workers[w].pc = "storing" THEN ErrByteStore ELSE ErrJobStore)
       ELSE UNCHANGED <<pc, err>>
  /\ UNCHANGED <<job, handler, bulk, bulkError, source, files, statusWrites,
                 records, queue, hasFailures, issues, hist>>
  /\ UNCHANGED pureVars

WorkersJoinEarly ==
  /\ pc = "workers"
  /\ \E w \in Workers : workers[w].pc = "done"
  /\ pc' = "manifestWrite"
  /\ UNCHANGED <<job, err, handler, bulk, bulkError, source, files, statusWrites>>
  /\ UNCHANGED imageVars
  /\ UNCHANGED pureVars

(* line 708-709 and runCatalogJob lines 174-190: every worker has finished, *)
(* downloadCovers returns, the manifest is serialised and its write is sent *)
WorkersJoin ==
  /\ pc = "workers"
  /\ \A w \in Workers : workers[w].pc = "done"
  /\ pc' = "manifestWrite"
  /\ UNCHANGED <<job, err, handler, bulk, bulkError, source, files, statusWrites>>
  /\ UNCHANGED imageVars
  /\ UNCHANGED pureVars

----------------------------------------------------------------------------
(* runCatalogJob, lines 188-264: manifest, PDF, ZIP, final update *)

afterImages == <<handler, bulk, bulkError, source>>

\* jobFile.create: the JobFile row
FileRow(type) == [type |-> type]

(* line 190: the manifest is stored; jobFile.create is sent *)
ManifestWrite ==
  /\ pc = "manifestWrite"
  /\ \/ Reject(ErrByteStore)
     \/ pc' = "manifestFile" /\ err' = err
  /\ UNCHANGED <<job, files, statusWrites>>
  /\ UNCHANGED afterImages
  /\ UNCHANGED imageVars
  /\ UNCHANGED pureVars

(* lines 192-209: the MANIFEST row is created; the update to 70% is sent *)
ManifestFileCreate ==
  /\ pc = "manifestFile"
  /\ \/ Reject(ErrJobStore) /\ UNCHANGED files
     \/ /\ files' = Append(files, FileRow("MANIFEST"))
        /\ pc' = "update70"
        /\ err' = err
  /\ UNCHANGED <<job, statusWrites>>
  /\ UNCHANGED afterImages
  /\ UNCHANGED imageVars
  /\ UNCHANGED pureVars

(* lines 203-215: the update to 70% takes effect; buildPdf starts *)
Update70 ==
  /\ pc = "update70"
  /\ \/ Reject(ErrJobStore) /\ UNCHANGED job
     \/ /\ job' = [job EXCEPT !.progressPercent = 70, !.currentStep = "Building PDF"]
        /\ pc' = "buildPdf"
        /\ err' = err
  /\ UNCHANGED <<files, statusWrites>>
  /\ UNCHANGED afterImages
  /\ UNCHANGED imageVars
  /\ UNCHANGED pureVars

(* lines 211-227: buildPdf has written catalog.pdf; jobFile.create is sent *)
BuildPdf ==
  /\ pc = "buildPdf"
  /\ \/ Reject(ErrPdf)
     \/ pc' = "pdfFile" /\ err' = err
  /\ UNCHANGED <<job, files, statusWrites>>
  /\ UNCHANGED afterImages
  /\ UNCHANGED imageVars
  /\ UNCHANGED pureVars

(* lines 218-235: the PDF row is created; the update to 85% is sent *)
PdfFileCreate ==
  /\ pc = "pdfFile"
  /\ \/ Reject(ErrJobStore) /\ UNCHANGED files
     \/ /\ files' = Append(files, FileRow("PDF"))
        /\ pc' = "update85"
        /\ err' = err
  /\ UNCHANGED <<job, statusWrites>>
  /\ UNCHANGED afterImages
  /\ UNCHANGED imageVars
  /\ UNCHANGED pureVars

(* lines 229-242: the update to 85% takes effect; buildImagesZip starts *)
Update85 ==
  /\ pc = "update85"
  /\ \/ Reject(ErrJobStore) /\ UNCHANGED job
     \/ /\ job' = [job EXCEPT !.progressPercent = 85, !.currentStep = "Packaging ZIP"]
        /\ pc' = "buildZip"
        /\ err' = err
  /\ UNCHANGED <<files, statusWrites>>
  /\ UNCHANGED afterImages
  /\ UNCHANGED imageVars
  /\ UNCHANGED pureVars

(* lines 237-254: buildImagesZip has written images.zip; jobFile.create is sent *)
BuildImagesZip ==
  /\ pc = "buildZip"
  /\ \/ Reject(ErrZip)
     \/ pc' = "zipFile" /\ err' = err
  /\ UNCHANGED <<job, files, statusWrites>>
  /\ UNCHANGED afterImages
  /\ UNCHANGED imageVars
  /\ UNCHANGED pureVars

(* lines 245-264: the IMAGES_ZIP row is created; the final update is sent *)
ZipFileCreate ==
  /\ pc = "zipFile"
  /\ \/ Reject(ErrJobStore) /\ UNCHANGED files
     \/ /\ files' = Append(files, FileRow("IMAGES_ZIP"))
        /\ pc' = "update100"
        /\ err' = err
  /\ UNCHANGED <<job, statusWrites>>
  /\ UNCHANGED afterImages
  /\ UNCHANGED imageVars
  /\ UNCHANGED pureVars

(* lines 256-265: the final update takes effect; runCatalogJob resolves *)
Update100 ==
  /\ pc = "update100"
  /\ \/ Reject(ErrJobStore) /\ UNCHANGED <<job, statusWrites>>
     \/ /\ job' = [job EXCEPT !.progressPercent = 100,
                              !.currentStep = "Completed",
                              !.status = FinalStatus(hasFailures)]
        /\ WriteStatus("runCatalogJob", FinalStatus(hasFailures))
        /\ pc' = "done"
        /\ err' = err
  /\ UNCHANGED files
  /\ UNCHANGED afterImages
  /\ UNCHANGED imageVars
  /\ UNCHANGED pureVars

----------------------------------------------------------------------------
(* worker/src/index.ts *)

FailedUpdateNoSummary(j, message) == [j EXCEPT !.status = "FAILED"]

FailedUpdateResetsProgress(j, message) ==
  [j EXCEPT !.status = "FAILED", !.errorSummary = message, !.progressPercent = 0]

\* the data of the failed handler's update: status and errorSummary
FailedUpdate(j, message) ==
  [j EXCEPT !.status = "FAILED", !.errorSummary = message]

(* worker.on("failed"), lines 32-44: runs once the processor's promise has *)
(* rejected; `job` is the BullMQ job that was being processed               *)
FailedHandler ==
  /\ pc = "rejected"
  /\ handler = "idle"
  /\ job' = FailedUpdate(job, err)
  /\ WriteStatus("failedHandler", "FAILED")
  /\ handler' = "done"
  /\ UNCHANGED <<pc, err, bulk, bulkError, source, files>>
  /\ UNCHANGED imageVars
  /\ UNCHANGED pureVars

----------------------------------------------------------------------------

Next ==
  \/ RunStart
  \/ StartBulkOperation
  \/ BulkPollResponse
  \/ BulkSleepDone
  \/ ParseBulkResults
  \/ FallbackLabel
  \/ FetchProductsPaginated
  \/ Update35
  \/ DownloadCoversInit
  \/ \E w \in Workers : FetchResponse(w)
  \/ \E w \in Workers : IssueCreated(w)
  \/ \E w \in Workers : StoreWritten(w)
  \/ \E w \in Workers : IncrementCountsRead(w)
  \/ \E w \in Workers : IncrementCountsWrite(w)
  \/ \E w \in Workers : WorkerThrows(w)
  \/ WorkersJoin
  \/ ManifestWrite
  \/ ManifestFileCreate
  \/ Update70
  \/ BuildPdf
  \/ PdfFileCreate
  \/ Update85
  \/ BuildImagesZip
  \/ ZipFileCreate
  \/ Update100
  \/ FailedHandler

Spec == Init /\ [][Next]_vars

\* the event loop runs every pending continuation: the failed handler runs
\* once the processor has rejected, and a worker's awaited call settles
FairSpec == Spec /\ WF_vars(FailedHandler)

----------------------------------------------------------------------------
(* The product extractor: parseBulkResults, lines 415-499 *)

ProductIds == {"P1", "P2"}

\* a value that passes a JavaScript truthiness test
Truthy(v) == v \notin {Undefined, Null, ""}

\* String(record.id).includes("Collection")
IsCollectionId(id) == id \in {"Collection1", "Collection2"}

\* the lines of a result stream, as parsed JSON objects.  A product line has
\* no __parentId; a child line is a variant (price), an image (url) or a
\* collection (title and a Collection id).
ProductLines ==
  [parentId : {Undefined}, id : ProductIds, title : {"A", "B"}, price : {Undefined},
   url : {Undefined}, featuredImage : {Undefined}, images : {Undefined, "u0"}]
VariantLines ==
  [parentId : ProductIds, id : {"V1"}, title : {"v"}, price : {"10", "20"},
   url : {Undefined}, featuredImage : {Undefined}, images : {Undefined}]
ImageLines ==
  [parentId : ProductIds, id : {Undefined}, title : {Undefined}, price : {Undefined},
   url : {"u1"}, featuredImage : {Undefined}, images : {Undefined}]
CollectionLines ==
  [parentId : ProductIds, id : {"Collection1"}, title : {"C"}, price : {Undefined},
   url : {Undefined}, featuredImage : {Undefined}, images : {Undefined}]
Lines == ProductLines \cup VariantLines \cup ImageLines \cup CollectionLines

Streams == UNION {[1..n -> Lines] : n \in 0..MaxLines}

\* lines 432-437 (and 457-462, 473-478, 484-489): the accumulator created
\* for an id the Map does not hold
NewAccumulator(id) ==
  [id |-> id, title |-> Undefined, featuredImageUrl |-> Undefined,
   imageUrls |-> <<>>, variants |-> <<>>, collections |-> <<>>]

\* Map.get: the index of the entry of `id`, 0 if there is none
Find(products, id) ==
  IF \E i \in DOMAIN products : products[i].id = id
    THEN CHOOSE i \in DOMAIN products : products[i].id = id
    ELSE 0

\* products.get(id) ?? { id, collections: [], imageUrls: [], variants: [] }
GetOrCreate(products, id) ==
  IF Find(products, id) = 0 THEN NewAccumulator(id) ELSE products[Find(products, id)]

\* Map.set: a held key keeps its place, a new key goes to the end
MapSet(products, acc) ==
  IF Find(products, acc.id) = 0
    THEN Append(products, acc)
    ELSE [products EXCEPT ![Find(products, acc.id)] = acc]

\* a ?? null
OrNull(v) == IF v = Undefined THEN Null ELSE v

\* lines 430-454: a product line fills the scalar fields of its accumulator
\* and appends the url of its first inline image, if it has one
ProductLine(products, record) ==
  LET product == GetOrCreate(products, record.id)
      filled == [product EXCEPT !.title = OrNull(record.title),
                                !.featuredImageUrl = OrNull(record.featuredImage)]
  IN  MapSet(products,
             IF Truthy(record.images)
               THEN [filled EXCEPT !.imageUrls = Append(@, record.images)]
               ELSE filled)

\* lines 456-470: a variant line
VariantLine(products, record) ==
  MapSet(products,
         [GetOrCreate(products, record.parentId) EXCEPT
            !.variants = Append(@, [id |-> record.id,
                                    title |-> IF record.title = Undefined THEN "" ELSE record.title,
                                    price |-> OrNull(record.price)])])

\* lines 472-481: an image line
ImageLine(products, record) ==
  IF Truthy(record.parentId) /\ Truthy(record.url)
    THEN MapSet(products,
                [GetOrCreate(products, record.parentId) EXCEPT
                   !.imageUrls = Append(@, record.url)])
    ELSE products

\* lines 483-495: a collection line
CollectionLine(products, record) ==
  IF /\ Truthy(record.parentId) /\ Truthy(record.title) /\ Truthy(record.id)
     /\ IsCollectionId(record.id)
    THEN MapSet(products,
                [GetOrCreate(products, record.parentId) EXCEPT
                   !.collections = Append(@, [id |-> record.id, title |-> record.title])])
    ELSE products

\* lines 425-496: the body of the loop for one line.  The product and the
\* variant branch end with `continue`; the image test falls through to the
\* collection test.
ParseLine(products, record) ==
  IF ~Truthy(record.parentId) /\ Truthy(record.id)
    THEN ProductLine(products, record)
  ELSE IF Truthy(record.parentId) /\ record.price # Undefined
    THEN VariantLine(products, record)
  ELSE CollectionLine(ImageLine(products, record), record)

\* parseBulkResults as a function of the whole stream: the Map's values after
\* the loop has read every line
RECURSIVE ParseLines(_, _)
ParseLines(products, lines) ==
  IF lines = <<>> THEN products
  ELSE ParseLines(ParseLine(products, Head(lines)), Tail(lines))

BulkAccumulators(lines) == ParseLines(<<>>, lines)

extractFrame == UNCHANGED <<mainVars, arrangeVars, outputVars, recordVars>>

(* lines 425-496: readline delivers the next line *)
ReadLine ==
  /\ extract = "parsing"
  /\ stream.at <= Len(stream.lines)
  /\ bulkProducts' = ParseLine(bulkProducts, stream.lines[stream.at])
  /\ stream' = [stream EXCEPT !.at = @ + 1]
  /\ UNCHANGED <<extract, pager, output>>
  /\ extractFrame

(* line 498: the stream has ended; the Map's values are returned *)
ReadEnd ==
  /\ extract = "parsing"
  /\ stream.at > Len(stream.lines)
  /\ output' = bulkProducts
  /\ extract' = "parsed"
  /\ UNCHANGED <<stream, bulkProducts, pager>>
  /\ extractFrame

----------------------------------------------------------------------------
(* The product extractor: buildProductQuery and fetchProductsPaginated *)

\* the part of ExportSettings the selection predicate is built from
Settings ==
  [includeDrafts : {<<TRUE>>, Absent}, scopeType : {"ALL_PRODUCTS", "PRODUCTS"},
   productIds : {<<"P1">>}]

\* settings.includeDrafts ?? false (lines 268 and 505)
IncludeDrafts(settings) ==
  IF settings.includeDrafts = Absent THEN FALSE ELSE settings.includeDrafts[1]

\* buildProductQuery, lines 299-330: the clauses that are joined with AND
BuildProductQuery(settings, includeDrafts) ==
  <<IF includeDrafts THEN "(status:active OR status:draft)" ELSE "status:active">>
  \o (IF settings.scopeType = "PRODUCTS" /\ settings.productIds # <<>>
        THEN <<[field |-> "id", anyOf |-> settings.productIds]>>
        ELSE <<>>)

\* buildBulkQuery, lines 267-297: the predicate of the bulk query
BuildBulkQuery(settings) ==
  [query |-> BuildProductQuery(settings, IncludeDrafts(settings))]

\* lines 505-538: the request of one page
PageRequest(settings, cursor) ==
  [query |-> BuildProductQuery(settings, IncludeDrafts(settings)), after |-> cursor]

\* the edges a page can hold: the service gives every edge a cursor
Edges == {[cursor |-> <<"cursor", p>>, node |-> [id |-> p, title |-> "A"]] : p \in ProductIds}

\* a response that has body.data.products: the edges and pageInfo.hasNextPage
Pages ==
  [payload : {TRUE}, edges : UNION {[1..n -> Edges] : n \in 0..pageSize},
   hasNextPage : {<<TRUE>>, <<FALSE>>, Absent}]

\* a response without body.data.products
NoPayload == [payload |-> FALSE, edges |-> <<>>, hasNextPage |-> Absent]

Responses == Pages \cup {NoPayload}

\* lines 547-567: the accumulator built from a node
NodeAccumulator(node) ==
  [id |-> node.id, title |-> OrNull(node.title), featuredImageUrl |-> Null,
   imageUrls |-> <<>>, variants |-> <<>>, collections |-> <<>>]

\* lines 545-570: products.push(accumulator) for every edge of the page
PushEdges(products, edges) ==
  products \o [i \in DOMAIN edges |-> NodeAccumulator(edges[i].node)]

\* lines 545-570: cursor = edge.cursor for every edge of the page
CursorAfter(cursor, edges) ==
  IF edges = <<>> THEN cursor ELSE edges[Len(edges)].cursor

\* line 572: payload.pageInfo?.hasNextPage ?? false
HasNext(page) == IF page.hasNextPage = Absent THEN FALSE ELSE page.hasNextPage[1]

(* lines 511-575: one pass of the loop: the request is sent with the current *)
(* cursor and the response arrives.  Without payload the loop breaks; with   *)
(* a payload its edges are pushed; when the loop ends the array is returned. *)
(* A query that throws rejects fetchProductsPaginated.                       *)
QueryPage ==
  /\ extract = "paging"
  /\ pager.hasNext
  /\ Len(pager.requests) < MaxPages
  /\ \/ /\ extract' = "threw"
        /\ pager' = [pager EXCEPT
                       !.requests = Append(@, PageRequest(pager.settings, pager.cursor))]
        /\ UNCHANGED output
     \/ \E response \in Responses :
          LET asked == [pager EXCEPT
                          !.requests = Append(@, PageRequest(pager.settings, pager.cursor)),
                          !.responses = Append(@, response)]
              after == IF ~response.payload
                         THEN asked
                         ELSE [asked EXCEPT
                                 !.products = PushEdges(@, response.edges),
                                 !.cursor = CursorAfter(@, response.edges),
                                 !.hasNext = HasNext(response)]
          IN  /\ pager' = after
              /\ IF ~response.payload \/ ~after.hasNext
                   THEN extract' = "paged" /\ output' = after.products
                   ELSE UNCHANGED <<extract, output>>
  /\ UNCHANGED <<stream, bulkProducts>>
  /\ extractFrame

\* the extractor starts on a result stream or, as the fallback, on the pages
ExtractInit ==
  /\ MainInit
  /\ RecordIdle
  /\ ArrangeIdle
  /\ OutputIdle
  /\ output = <<>>
  /\ bulkProducts = <<>>
  /\ \/ /\ extract = "parsing"
        /\ stream \in [lines : Streams, at : {1}]
        /\ pager = NoLocals
     \/ /\ extract = "paging"
        /\ stream = NoStream
        /\ pager \in {[NoPager EXCEPT !.settings = s] : s \in Settings}

ExtractNext ==
  \/ ReadLine
  \/ ReadEnd
  \/ QueryPage

ExtractSpec == ExtractInit /\ [][ExtractNext]_vars

----------------------------------------------------------------------------
(* The grouper/sorter: sortRecords, lines 620-631 *)

\* the strings that occur as sort keys, in the order localeCompare puts them
Collation == <<"", "a">>

Rank(string) == CHOOSE i \in DOMAIN Collation : Collation[i] = string

\* a.localeCompare(b): negative, zero or positive
LocaleCompare(a, b) ==
  IF Rank(a) < Rank(b) THEN -1 ELSE IF Rank(a) > Rank(b) THEN 1 ELSE 0

\* a ?? ""
OrEmpty(v) == IF v \in {Null, Undefined} THEN "" ELSE v

\* lines 624, 626, 628: the comparator of each sort order
Compare(sortOrder, a, b) ==
  CASE sortOrder = "TITLE_ASC" -> LocaleCompare(OrEmpty(a.title), OrEmpty(b.title))
    [] sortOrder = "CREATED_DESC" -> LocaleCompare(OrEmpty(b.createdAt), OrEmpty(a.createdAt))
    [] sortOrder = "UPDATED_DESC" -> LocaleCompare(OrEmpty(b.updatedAt), OrEmpty(a.updatedAt))

InsertBeforeEqual(array, x, sortOrder) ==
  LET after == {i \in DOMAIN array : Compare(sortOrder, array[i], x) >= 0}
      at == IF after = {} THEN Len(array) + 1
            ELSE CHOOSE i \in after : \A j \in after : i <= j
  IN  SubSeq(array, 1, at - 1) \o <<x>> \o SubSeq(array, at, Len(array))

\* Array.prototype.sort is stable: an element goes behind every element the
\* comparator does not put after it
Insert(array, x, sortOrder) ==
  LET after == {i \in DOMAIN array : Compare(sortOrder, array[i], x) > 0}
      at == IF after = {} THEN Len(array) + 1
            ELSE CHOOSE i \in after : \A j \in after : i <= j
  IN  SubSeq(array, 1, at - 1) \o <<x>> \o SubSeq(array, at, Len(array))

\* Array.prototype.sort with the comparator of sortOrder
RECURSIVE ArraySort(_, _)
ArraySort(array, sortOrder) ==
  IF array = <<>> THEN <<>>
  ELSE Insert(ArraySort(SubSeq(array, 1, Len(array) - 1), sortOrder),
              array[Len(array)], sortOrder)

\* sortRecords, lines 620-631: a copy, sorted unless sortOrder is COLLECTION_ORDER
SortRecords(list, s) ==
  LET sortOrder == IF s.sortOrder = Undefined THEN "TITLE_ASC" ELSE s.sortOrder
  IN  IF sortOrder \in {"TITLE_ASC", "CREATED_DESC", "UPDATED_DESC"}
        THEN ArraySort(list, sortOrder)
        ELSE list

----------------------------------------------------------------------------
(* The grouper/sorter: buildGroupedItems, lines 1369-1397 *)

SelectCollectionTitleFirst(record, s) ==
  IF record.collections = <<>> THEN Null ELSE record.collections[1].title

\* selectCollectionTitle, lines 1426-1439.  Null when the record has no
\* collection; else the title of the first collection whose id is among the
\* selected ones; else that of the first collection.
SelectCollectionTitle(record, s) ==
  LET selected == {i \in DOMAIN record.collections :
                     \E k \in DOMAIN s.collectionIds :
                        s.collectionIds[k] = record.collections[i].id}
  IN  IF record.collections = <<>> THEN Null
      ELSE IF s.collectionIds # <<>> /\ selected # {}
        THEN record.collections[CHOOSE i \in selected : \A j \in selected : i <= j].title
      ELSE record.collections[1].title

\* a ?? "Unassigned"
OrUnassigned(v) == IF v \in {Null, Undefined} THEN "Unassigned" ELSE v

\* lines 1377-1382: the key of a record's bucket
GroupKey(record, s) ==
  CASE s.grouping = "VENDOR" -> OrUnassigned(record.vendor)
    [] s.grouping = "PRODUCT_TYPE" -> OrUnassigned(record.productType)
    [] OTHER -> OrUnassigned(SelectCollectionTitle(record, s))

\* the Map `grouped`, as the sequence of its entries in insertion order
BucketOf(grouped, key) ==
  IF \E i \in DOMAIN grouped : grouped[i].title = key
    THEN CHOOSE i \in DOMAIN grouped : grouped[i].title = key
    ELSE 0

AddToBucketFront(grouped, key, record) ==
  IF BucketOf(grouped, key) = 0
    THEN Append(grouped, [title |-> key, group |-> <<record>>])
    ELSE [grouped EXCEPT ![BucketOf(grouped, key)].group = <<record>> \o @]

AddToLastBucket(grouped, key, record) ==
  IF grouped = <<>> \/ grouped[Len(grouped)].title # key
    THEN Append(grouped, [title |-> key, group |-> <<record>>])
    ELSE [grouped EXCEPT ![Len(grouped)].group = Append(@, record)]

\* lines 1383-1385: the record is pushed to the bucket of its key; a new key
\* gets a new bucket behind the others
AddToBucket(grouped, key, record) ==
  IF BucketOf(grouped, key) = 0
    THEN Append(grouped, [title |-> key, group |-> <<record>>])
    ELSE [grouped EXCEPT ![BucketOf(grouped, key)].group = Append(@, record)]

\* lines 1375-1386: the loop over the records
RECURSIVE GroupRecords(_, _)
GroupRecords(list, s) ==
  IF list = <<>> THEN <<>>
  ELSE AddToBucket(GroupRecords(SubSeq(list, 1, Len(list) - 1), s),
                   GroupKey(list[Len(list)], s), list[Len(list)])

\* the record slot of a header item
NoRecord ==
  [productId |-> 0, title |-> Null, createdAt |-> Null, updatedAt |-> Null,
   vendor |-> Null, productType |-> Null, collections |-> <<>>]

HeaderItem(title) == [kind |-> "header", title |-> title, record |-> NoRecord]
ProductItem(record) == [kind |-> "product", title |-> Undefined, record |-> record]

\* lines 1390-1395: every bucket gives its header and then its records
RECURSIVE Flatten(_)
Flatten(grouped) ==
  IF grouped = <<>> THEN <<>>
  ELSE <<HeaderItem(Head(grouped).title)>>
       \o [i \in DOMAIN Head(grouped).group |-> ProductItem(Head(grouped).group[i])]
       \o Flatten(Tail(grouped))

\* buildGroupedItems, lines 1369-1397
BuildGroupedItems(list, s) ==
  LET grouping == IF s.grouping = Undefined THEN "NONE" ELSE s.grouping
  IN  IF grouping = "NONE"
        THEN [i \in DOMAIN list |-> ProductItem(list[i])]
        ELSE Flatten(GroupRecords(list, s))

----------------------------------------------------------------------------
(* The grouper/sorter: inputs and steps *)

ArrangeSettings ==
  {s \in [sortOrder : {Undefined, "TITLE_ASC", "CREATED_DESC", "UPDATED_DESC",
                       "COLLECTION_ORDER"},
          grouping : {Undefined, "NONE", "VENDOR", "PRODUCT_TYPE", "COLLECTION"},
          collectionIds : {<<>>, <<"c1">>, <<"c1", "c2">>, <<"c3">>}] :
     /\ s.collectionIds # <<>> => s.grouping = "COLLECTION"
     \* two selected ids, and an id that no record has, with the sort order
     \* that reads no field of the records
     /\ s.collectionIds \in {<<"c1", "c2">>, <<"c3">>} => s.sortOrder = "COLLECTION_ORDER"}

\* the values of the field a record is sorted by, and of the field it is
\* grouped by (vendor or product type; collections)
SortKeys == {Null, "", "a"}
GroupNames == <<Null, "V", "W">>
GroupCollections ==
  <<<<>>, <<[id |-> "c1", title |-> "One"]>>,
    <<[id |-> "c2", title |-> "Two"], [id |-> "c1", title |-> "One"]>>>>

\* the ProductRecord with product id `id` whose sort field is k and whose
\* group field is the g-th value; the fields the settings do not read are null
MakeRecord(id, s, k, g) ==
  [productId |-> id,
   title |-> IF s.sortOrder \notin {"CREATED_DESC", "UPDATED_DESC"} THEN k ELSE Null,
   createdAt |-> IF s.sortOrder = "CREATED_DESC" THEN k ELSE Null,
   updatedAt |-> IF s.sortOrder = "UPDATED_DESC" THEN k ELSE Null,
   vendor |-> IF s.grouping \notin {"PRODUCT_TYPE", "COLLECTION"} THEN GroupNames[g] ELSE Null,
   productType |-> IF s.grouping = "PRODUCT_TYPE" THEN GroupNames[g] ELSE Null,
   collections |-> IF s.grouping = "COLLECTION" THEN GroupCollections[g] ELSE <<>>]

\* the lists of up to MaxItems records that differ in the fields the settings read
RecordLists(s) ==
  LET keys == IF s.sortOrder = "COLLECTION_ORDER" THEN {Null} ELSE SortKeys
      groups == IF s.grouping \in {Undefined, "NONE"} THEN {1} ELSE DOMAIN GroupNames
  IN  UNION {{[i \in 1..n |-> MakeRecord(i, s, f[i][1], f[i][2])] :
                f \in [1..n -> keys \X groups]} : n \in 0..MaxItems}

arrangeFrame == UNCHANGED <<mainVars, extractVars, outputVars, recordVars>>

(* runCatalogJob, line 155: sortRecords(records, settings) *)
RunSortRecords ==
  /\ arrange = "start"
  /\ sorted' = SortRecords(unsorted, exportSettings)
  /\ arrange' = "sorted"
  /\ UNCHANGED <<exportSettings, unsorted, items>>
  /\ arrangeFrame

(* buildPdf, line 1005: buildGroupedItems(params.records, params.settings) *)
RunBuildGroupedItems ==
  /\ arrange = "sorted"
  /\ items' = BuildGroupedItems(sorted, exportSettings)
  /\ arrange' = "grouped"
  /\ UNCHANGED <<exportSettings, unsorted, sorted>>
  /\ arrangeFrame

ArrangeInit ==
  /\ MainInit
  /\ RecordIdle
  /\ ExtractIdle
  /\ OutputIdle
  /\ arrange = "start"
  /\ exportSettings \in ArrangeSettings
  /\ unsorted \in RecordLists(exportSettings)
  /\ sorted = <<>>
  /\ items = <<>>

ArrangeNext ==
  \/ RunSortRecords
  \/ RunBuildGroupedItems

ArrangeSpec == ArrangeInit /\ [][ArrangeNext]_vars

----------------------------------------------------------------------------
(* The PDF layout engine: buildPdf, lines 983-1083, and its drawing functions *)

\* line 1038
rows == 3

\* the byte store under storageRoot, by path: a cover that embeds, a cover
\* whose bytes no embedder accepts, and a path whose file cannot be read
CoverPaths == {"ok.png", "corrupt.jpg", "gone.png"}
Readable(path) == path # "gone.png"
Embeddable(path) == path = "ok.png"

\* a drawing call on a page: drawText of the watermark or of a header title,
\* drawImage of a cover or the placeholder's rectangle and text, for the
\* product `id` in the cell (row, col); the product page of ONE_PER_PAGE is
\* the cell (0, 0)
DrawText(kind, text) == [draw |-> kind, text |-> text, row |-> 0, col |-> 0, id |-> 0]
DrawCover(kind, row, col, id) == [draw |-> kind, text |-> "", row |-> row, col |-> col, id |-> id]

\* lines 1006-1016: the watermark object, null when the watermark is not enabled
Watermark(s) ==
  IF s.watermarkEnabled = <<TRUE>>
    THEN IF s.watermarkText = Undefined THEN "" ELSE s.watermarkText
    ELSE Null

\* drawWatermark, lines 1085-1104: nothing is drawn without a watermark object
\* or with an empty text
DrawWatermark(page, watermark) ==
  IF watermark = Null \/ watermark = "" THEN page
  ELSE Append(page, DrawText("watermark", watermark))

\* drawHeaderPage, lines 1106-1120
DrawHeaderPage(page, title) == Append(page, DrawText("header", title))

\* drawImageOrPlaceholder, lines 1294-1338: "image", "placeholder", or "throws"
\* when readFile (line 1306, outside the try block) rejects
DrawImageOrPlaceholder(record) ==
  IF Truthy(record.localCoverPath)
    THEN IF ~Readable(record.localCoverPath) THEN "throws"
         ELSE IF Embeddable(record.localCoverPath) THEN "image"
         ELSE "placeholder"
    ELSE "placeholder"

\* drawOnePerPage (lines 1122-1209) and drawGridCell (lines 1211-1292) start
\* with drawImageOrPlaceholder; the texts they draw next are left out.  The
\* state of the layout is the page being drawn, the index and whether a
\* drawing call has thrown.
DrawProduct(st, record, row, col) ==
  LET cover == DrawImageOrPlaceholder(record)
  IN  IF cover = "throws" THEN [st EXCEPT !.threw = TRUE]
      ELSE [st EXCEPT !.page = Append(@, DrawCover(cover, row, col, record.productId))]

Layout(s) == IF s.layoutType = Undefined THEN "GRID" ELSE s.layoutType
Columns(s) == IF s.gridColumns = Absent THEN 3 ELSE s.gridColumns[1]

\* lines 1020-1021 and 1043-1044: a new page, and the watermark on it
NewPage(s) == DrawWatermark(<<>>, Watermark(s))

HeaderPageWatermarkLast(s, title) ==
  DrawWatermark(DrawHeaderPage(<<>>, title), Watermark(s))

\* lines 1045-1049 (and 1022-1025): the page of a header
HeaderPage(s, title) == DrawHeaderPage(NewPage(s), title)

OnePerPageSkipsHeader(s, item) ==
  IF item.kind = "header"
    THEN [page |-> NewPage(s), threw |-> FALSE]
    ELSE DrawProduct([page |-> NewPage(s), threw |-> FALSE], item.record, 0, 0)

\* lines 1019-1036: one pass of the loop of ONE_PER_PAGE over `item`
OnePerPage(s, item) ==
  IF item.kind = "header"
    THEN [page |-> HeaderPage(s, item.title), threw |-> FALSE]
    ELSE DrawProduct([page |-> NewPage(s), threw |-> FALSE], item.record, 0, 0)

\* lines 1051-1075: the two for loops from cell (row, col) on, with index at
\* i: the drawing calls they add to the page, the index they leave and
\* whether a call threw.  The inner loop breaks at the end of the items and
\* at a header, and the next row begins.
RECURSIVE FillCells(_, _, _, _, _)
FillCells(list, columns, i, row, col) ==
  IF row >= rows THEN [page |-> <<>>, index |-> i, threw |-> FALSE]
  ELSE IF col >= columns THEN FillCells(list, columns, i, row + 1, 0)
  ELSE IF i >= Len(list) THEN FillCells(list, columns, i, row + 1, 0)
  ELSE IF list[i + 1].kind = "header" THEN FillCells(list, columns, i, row + 1, 0)
  ELSE LET drawn == DrawProduct([page |-> <<>>, threw |-> FALSE], list[i + 1].record, row, col)
       IN  IF drawn.threw THEN [page |-> <<>>, index |-> i, threw |-> TRUE]
           ELSE [FillCells(list, columns, i + 1, row, col + 1) EXCEPT !.page = drawn.page \o @]

GridPageOneRow(s, list, i) ==
  IF list[i + 1].kind = "header"
    THEN [page |-> HeaderPage(s, list[i + 1].title), index |-> i + 1, threw |-> FALSE]
    ELSE [FillCells(list, Columns(s), i, rows - 1, 0) EXCEPT !.page = NewPage(s) \o @]

GridPageSharedHeader(s, list, i) ==
  IF list[i + 1].kind = "header"
    THEN [FillCells(list, Columns(s), i + 1, 0, 0)
            EXCEPT !.page = HeaderPage(s, list[i + 1].title) \o @]
    ELSE [FillCells(list, Columns(s), i, 0, 0) EXCEPT !.page = NewPage(s) \o @]

\* lines 1042-1076: one pass of the while loop of GRID
GridPage(s, list, i) ==
  IF list[i + 1].kind = "header"
    THEN [page |-> HeaderPage(s, list[i + 1].title), index |-> i + 1, threw |-> FALSE]
    ELSE [FillCells(list, Columns(s), i, 0, 0) EXCEPT !.page = NewPage(s) \o @]

pdfFrame == UNCHANGED <<mainVars, extractVars, arrangeVars, overlayVars, zipVars, priceVars, recordVars>>


(* lines 1019-1036: the next item of ONE_PER_PAGE gets its page *)
OnePerPageItem ==
  /\ pdf = "layout"
  /\ Layout(pdfParams.settings) = "ONE_PER_PAGE"
  /\ index < Len(groupedItems)
  /\ LET st == OnePerPage(pdfParams.settings, groupedItems[index + 1])
     IN  /\ pages' = Append(pages, st.page)
         /\ index' = IF st.threw THEN index ELSE index + 1
         /\ pdf' = IF st.threw THEN "threw" ELSE "layout"
  /\ UNCHANGED <<pdfParams, groupedItems>>
  /\ pdfFrame

(* lines 1042-1076: the next page of GRID: a header page, or a page of cells *)
GridNextPage ==
  /\ pdf = "layout"
  /\ Layout(pdfParams.settings) # "ONE_PER_PAGE"
  /\ index < Len(groupedItems)
  /\ LET st == GridPage(pdfParams.settings, groupedItems, index)
     IN  /\ pages' = Append(pages, st.page)
         /\ index' = st.index
         /\ pdf' = IF st.threw THEN "threw" ELSE "layout"
  /\ UNCHANGED <<pdfParams, groupedItems>>
  /\ pdfFrame

(* lines 1079-1082: the loop is over; the document is saved and written to *)
(* the byte store, whose write may reject                                  *)
SavePdf ==
  /\ pdf = "layout"
  /\ index >= Len(groupedItems)
  /\ pdf' \in {"saved", "storeFailed"}
  /\ UNCHANGED <<pdfParams, groupedItems, index, pages>>
  /\ pdfFrame

\* the settings buildPdf reads; gridColumns matters to GRID alone
PdfSettings ==
  {s \in [layoutType : {Undefined, "GRID", "ONE_PER_PAGE"},
          gridColumns : {Absent, <<2>>, <<3>>, <<4>>},
          grouping : {"NONE", "VENDOR"},
          collectionIds : {<<>>},
          sortOrder : {Undefined},
          watermarkEnabled : {Absent, <<TRUE>>, <<FALSE>>},
          watermarkText : {Undefined, "", "W"}] :
     /\ (s.layoutType # "GRID") = (s.gridColumns = Absent)
     /\ s.watermarkEnabled = Absent => s.watermarkText = Undefined
     /\ s.watermarkEnabled = <<FALSE>> => s.watermarkText = "W"}

\* the record of product `id` of vendor GroupNames[g] with local cover path c
PdfRecord(id, s, g, c) ==
  [productId |-> id, title |-> Null, createdAt |-> Null, updatedAt |-> Null,
   vendor |-> GroupNames[g], productType |-> Null, collections |-> <<>>,
   localCoverPath |-> c]

\* the lists of up to MaxProducts records whose covers embed, and the lists
\* of up to MaxCovers records with any cover; the vendors differ when the
\* settings group by vendor
PdfRecordLists(s) ==
  LET groups == IF s.grouping = "NONE" THEN {2} ELSE {2, 3}
      lists(n, covers) ==
        {[i \in 1..n |-> PdfRecord(i, s, f[i][1], f[i][2])] : f \in [1..n -> groups \X covers]}
  IN  UNION {lists(n, {"ok.png"}) : n \in 0..MaxProducts}
      \cup UNION {lists(n, CoverPaths \cup {Null}) : n \in 0..MaxCovers}

(* lines 983-1016: buildPdf is called with records and settings; the        *)
(* document and the font are created, the settings read and the items       *)
(* grouped                                                                  *)
BuildPdfStart ==
  /\ pdf = "start"
  /\ \E s \in PdfSettings : \E list \in PdfRecordLists(s) :
       /\ pdfParams' = [records |-> list, settings |-> s]
       /\ groupedItems' = BuildGroupedItems(list, s)
  /\ pdf' = "layout"
  /\ UNCHANGED <<index, pages>>
  /\ pdfFrame

\* buildPdf has not been called yet
PdfInit ==
  /\ MainInit
  /\ RecordIdle
  /\ ExtractIdle
  /\ ArrangeIdle
  /\ OverlayIdle
  /\ ZipIdle
  /\ PriceIdle
  /\ pdf = "start"
  /\ pdfParams = NoLocals
  /\ groupedItems = <<>>
  /\ index = 0
  /\ pages = <<>>

PdfNext ==
  \/ BuildPdfStart
  \/ OnePerPageItem
  \/ GridNextPage
  \/ SavePdf

PdfSpec == PdfInit /\ [][PdfNext]_vars

\* buildPdf is not suspended for ever: the loop takes its next pass and the
\* document is saved
FairPdfSpec ==
  PdfSpec /\ WF_vars(OnePerPageItem) /\ WF_vars(GridNextPage) /\ WF_vars(SavePdf)

----------------------------------------------------------------------------
(* The overlay compositor: resolveOverlayStyle, lines 875-900 *)

\* A number is <<n>>, n its value in hundredths, and NaN is <<>>.  Pixel
\* sizes are whole numbers.
NaN == <<>>
Hundredths(n) == <<n>>

MathMin(a, b) == IF a <= b THEN a ELSE b
MathMax(a, b) == IF a >= b THEN a ELSE b

\* Math.round of q / d for d > 0: the nearest whole number, halves upwards
MathRound(q, d) == (2 * q + d) \div (2 * d)

Clamp01Open(value) ==
  IF value = NaN THEN 0 ELSE MathMax(value[1], 0)

\* clamp01, lines 968-971, in hundredths
Clamp01(value) ==
  IF value = NaN THEN 0 ELSE MathMin(MathMax(value[1], 0), 100)

\* rect?.field ?? fallback: the overlay's rect is <<>> when it has none
RectOr(overlay, field, fallback) ==
  IF overlay.rect = Absent THEN Hundredths(fallback) ELSE overlay.rect[1][field]

\* resolveOverlayStyle, lines 880-899; the colours it passes on are left out
ResolveOverlayStyle(overlay, imageWidth, imageHeight) ==
  LET widthRatio == Clamp01(RectOr(overlay, "width", 88))
      heightRatio == Clamp01(RectOr(overlay, "height", 20))
      xRatio == Clamp01(RectOr(overlay, "x", 6))
      yRatio == Clamp01(RectOr(overlay, "y", 74))
      width == MathRound(imageWidth * widthRatio, 100)
      height == MathRound(imageHeight * heightRatio, 100)
  IN  [x |-> MathRound(MathMin(MathMax(0, imageWidth * xRatio), (imageWidth - width) * 100), 100),
       y |-> MathRound(MathMin(MathMax(0, imageHeight * yRatio), (imageHeight - height) * 100), 100),
       width |-> width,
       height |-> height,
       backgroundOpacity |->
         Clamp01(IF overlay.backgroundOpacity = Absent THEN Hundredths(55)
                 ELSE overlay.backgroundOpacity[1])]

\* the ratios of a rect: in range, negative, above 1, and NaN
Ratios == {NaN} \cup {Hundredths(n) : n \in {-50, 0, 25, 50, 100, 150}}

Overlays ==
  [rect : {Absent} \cup {<<r>> : r \in [x : Ratios, y : Ratios, width : Ratios, height : Ratios]},
   backgroundOpacity : {Absent, <<Hundredths(150)>>}]

\* the sides of an image, in pixels
ImageSides == 1..MaxSide

overlayFrame == UNCHANGED <<mainVars, extractVars, arrangeVars, pdfVars, zipVars, priceVars, recordVars>>

(* resolveOverlayStyle is called (line 851) and returns *)
RunResolveOverlayStyle ==
  /\ overlayCall = NoLocals
  /\ \E overlay \in Overlays : \E imageWidth \in ImageSides : \E imageHeight \in ImageSides :
       /\ overlayCall' = [overlay |-> overlay, imageWidth |-> imageWidth,
                          imageHeight |-> imageHeight]
       /\ resolved' = ResolveOverlayStyle(overlay, imageWidth, imageHeight)
  /\ overlayFrame

OverlayInit ==
  /\ MainInit
  /\ RecordIdle
  /\ ExtractIdle
  /\ ArrangeIdle
  /\ OutputIdle

OverlayNext == RunResolveOverlayStyle

OverlaySpec == OverlayInit /\ [][OverlayNext]_vars

----------------------------------------------------------------------------
(* Price formatting: formatPrice, lines 1340-1355 *)

\* ProductRecord["price"], lines 93-97: null, a string, {min, max},
\* {variants}; any other object is kind "object"
Price(kind, value, min, max, variants) ==
  [kind |-> kind, value |-> value, min |-> min, max |-> max, variants |-> variants]

NoPrice == Price("null", "", "", "", <<>>)
Scalar(value) == Price("string", value, "", "", <<>>)
Range(min, max) == Price("range", "", min, max, <<>>)
VariantTable(variants) == Price("variants", "", "", "", variants)
EmptyObject == Price("object", "", "", "", <<>>)

\* currencyPrefix ?? "$"
PrefixOr(currencyPrefix) ==
  IF currencyPrefix \in {Undefined, Null} THEN "$" ELSE currencyPrefix

FormatPriceLastVariant(price, currencyPrefix) ==
  IF price.kind = "null" \/ (price.kind = "string" /\ price.value = "") THEN Null
  ELSE CASE price.kind = "string" -> PrefixOr(currencyPrefix) \o price.value
         [] price.kind = "range" ->
              PrefixOr(currencyPrefix) \o price.min \o " - "
                \o PrefixOr(currencyPrefix) \o price.max
         [] price.kind = "variants" ->
              IF price.variants # <<>> /\ Truthy(price.variants[Len(price.variants)].price)
                THEN PrefixOr(currencyPrefix) \o price.variants[Len(price.variants)].price
                ELSE Null
         [] OTHER -> Null

\* formatPrice, lines 1340-1355: `!price` is true of null and of the empty
\* string; the result is a string, or Null
FormatPrice(price, currencyPrefix) ==
  IF price.kind = "null" \/ (price.kind = "string" /\ price.value = "") THEN Null
  ELSE CASE price.kind = "string" -> PrefixOr(currencyPrefix) \o price.value
         [] price.kind = "range" ->
              PrefixOr(currencyPrefix) \o price.min \o " - "
                \o PrefixOr(currencyPrefix) \o price.max
         [] price.kind = "variants" ->
              IF price.variants # <<>> /\ Truthy(price.variants[1].price)
                THEN PrefixOr(currencyPrefix) \o price.variants[1].price
                ELSE Null
         [] OTHER -> Null

\* the variants of a table: a title and a price, which may be null
Variants == [title : {"Small"}, price : {Null, "", "5.00", "7"}]

VariantLists == UNION {[1..n -> Variants] : n \in 0..MaxVariants}

Prices ==
  {NoPrice, EmptyObject}
  \cup {Scalar(v) : v \in {"", "19.99", "5"}}
  \cup {Range(lo, hi) : lo \in {"10", "25"}, hi \in {"10", "25"}}
  \cup {VariantTable(v) : v \in VariantLists}

Prefixes == {Undefined, "$", "EUR ", ""}

priceFrame == UNCHANGED <<mainVars, extractVars, arrangeVars, pdfVars, overlayVars, zipVars, recordVars>>

(* formatPrice is called (lines 800, 1198, 1281 and the tests) and returns *)
RunFormatPrice ==
  /\ priceCall = NoLocals
  /\ \E price \in Prices : \E currencyPrefix \in Prefixes :
       /\ priceCall' = [price |-> price, currencyPrefix |-> currencyPrefix]
       /\ priceText' = FormatPrice(price, currencyPrefix)
  /\ priceFrame

PriceInit ==
  /\ MainInit
  /\ RecordIdle
  /\ ExtractIdle
  /\ ArrangeIdle
  /\ OutputIdle

PriceNext == RunFormatPrice

PriceSpec == PriceInit /\ [][PriceNext]_vars

----------------------------------------------------------------------------
(* The archive builder: buildImagesZip, lines 774-835, and applyPriceOverlay, *)
(* lines 837-873                                                              *)

\* bytes: those read from the byte store at `source`, and what encoding them
\* again with an overlay text gives
Bytes(key) == [source |-> key, overlay |-> Null, format |-> "source"]
Composite(bytes, text, format) == [source |-> bytes.source, overlay |-> text, format |-> format]

\* sharp decodes the bytes (metadata, composite, toBuffer)
Decodable(bytes) == Embeddable(bytes.source)

\* path.extname(record.localCoverPath)
Extname(path) == IF path \in {"ok.png", "gone.png"} THEN ".png" ELSE ".jpg"

\* params.overlay?.enabled; settings.priceOverlay is <<>> when absent
OverlayEnabled(overlay) == overlay # Absent /\ overlay[1].enabled = <<TRUE>>

\* lines 800-803: priceOverlay?.currencyPrefix ?? settings.currencyPrefix
OverlayPrefix(s) ==
  IF s.priceOverlay # Absent /\ s.priceOverlay[1].currencyPrefix \notin {Undefined, Null}
    THEN s.priceOverlay[1].currencyPrefix
    ELSE s.currencyPrefix

ApplyPriceOverlayAlways(bytes, text, extension, overlay) ==
  IF ~Truthy(text) THEN [threw |-> FALSE, bytes |-> bytes]
  ELSE IF ~Decodable(bytes) THEN [threw |-> TRUE, bytes |-> bytes]
  ELSE [threw |-> FALSE,
        bytes |-> Composite(bytes, text, IF extension = ".png" THEN "png" ELSE "jpeg")]

\* applyPriceOverlay, lines 837-873: the bytes as they are without a price
\* text or an enabled overlay; else the image is decoded, which may reject,
\* and encoded again with the overlay, as PNG or as JPEG
ApplyPriceOverlay(bytes, text, extension, overlay) ==
  IF ~Truthy(text) \/ ~OverlayEnabled(overlay) THEN [threw |-> FALSE, bytes |-> bytes]
  ELSE IF ~Decodable(bytes) THEN [threw |-> TRUE, bytes |-> bytes]
  ELSE [threw |-> FALSE,
        bytes |-> Composite(bytes, text, IF extension = ".png" THEN "png" ELSE "jpeg")]

ZipImageKeepsUnreadable(record, s) ==
  IF ~Truthy(record.localCoverPath) \/ ~Truthy(record.coverFileName)
    THEN [outcome |-> "skip", name |-> "", bytes |-> Bytes("")]
  ELSE LET outputBytes == ApplyPriceOverlay(Bytes(record.localCoverPath),
                                            FormatPrice(record.price, OverlayPrefix(s)),
                                            Extname(record.localCoverPath), s.priceOverlay)
       IN  IF outputBytes.threw
             THEN [outcome |-> "warn", name |-> "", bytes |-> Bytes("")]
             ELSE [outcome |-> "append", name |-> record.coverFileName,
                   bytes |-> outputBytes.bytes]

\* lines 795-818: what one pass of the loop does with a record: "skip" it,
\* "append" an entry, or "warn" after a rejected read or composite
ZipImage(record, s) ==
  IF ~Truthy(record.localCoverPath) \/ ~Truthy(record.coverFileName)
    THEN [outcome |-> "skip", name |-> "", bytes |-> Bytes("")]
  ELSE IF ~Readable(record.localCoverPath)
    THEN [outcome |-> "warn", name |-> "", bytes |-> Bytes("")]
  ELSE LET outputBytes == ApplyPriceOverlay(Bytes(record.localCoverPath),
                                            FormatPrice(record.price, OverlayPrefix(s)),
                                            Extname(record.localCoverPath), s.priceOverlay)
       IN  IF outputBytes.threw
             THEN [outcome |-> "warn", name |-> "", bytes |-> Bytes("")]
             ELSE [outcome |-> "append", name |-> record.coverFileName,
                   bytes |-> outputBytes.bytes]

Readme == [name |-> "README.txt", bytes |-> Bytes("CatalogForge - cover images only.\n")]

TailEntriesWithoutReadme(manifestKey) ==
  IF Truthy(manifestKey) THEN <<[name |-> "manifest.json", bytes |-> Bytes(manifestKey)]>>
  ELSE <<>>

\* lines 821-830: the manifest, when there is a manifest key, and the README
TailEntries(manifestKey) ==
  (IF Truthy(manifestKey) THEN <<[name |-> "manifest.json", bytes |-> Bytes(manifestKey)]>>
   ELSE <<>>)
  \o <<Readme>>

\* the settings buildImagesZip reads
ZipSettings ==
  [priceOverlay : {Absent} \cup
       {<<o>> : o \in {[enabled |-> Absent, currencyPrefix |-> Undefined],
                       [enabled |-> <<FALSE>>, currencyPrefix |-> Undefined],
                       [enabled |-> <<TRUE>>, currencyPrefix |-> Undefined],
                       [enabled |-> <<TRUE>>, currencyPrefix |-> "EUR "]}},
   currencyPrefix : {Undefined, "GBP "}]

ZipPrices == {NoPrice, Scalar("5"), VariantTable(<<[title |-> "Small", price |-> Null]>>)}

\* the record of product `id` after downloadCovers (lines 694-699): with the
\* local path c and the entry name of its handle, or with neither
ZipRecord(id, c, price) ==
  [productId |-> id,
   localCoverPath |-> c,
   coverFileName |-> IF c = Null THEN Null ELSE "images/h" \o ToString(id) \o Extname(c),
   price |-> price]

ZipRecordLists ==
  UNION {{[i \in 1..n |-> ZipRecord(i, f[i][1], f[i][2])] :
            f \in [1..n -> (CoverPaths \cup {Null}) \X ZipPrices]} : n \in 0..MaxEntries}

zipFrame == UNCHANGED <<mainVars, extractVars, arrangeVars, pdfVars, overlayVars, priceVars, recordVars>>

(* lines 774-792: buildImagesZip is called; the directory, the archive and *)
(* the write stream are created                                            *)
ZipStart ==
  /\ zip = "start"
  /\ \E list \in ZipRecordLists : \E s \in ZipSettings :
       \E manifestKey \in {Undefined, "jobs/1/manifest.json"} :
         zipParams' = [records |-> list, settings |-> s, manifestKey |-> manifestKey]
  /\ archive' = [entries |-> <<>>, finalized |-> FALSE, closed |-> FALSE]
  /\ zip' = "records"
  /\ UNCHANGED <<visited, warnings>>
  /\ zipFrame

(* lines 794-819: one pass of the loop over the records *)
ZipNextRecord ==
  /\ zip = "records"
  /\ visited < Len(zipParams.records)
  /\ LET record == zipParams.records[visited + 1]
         image == ZipImage(record, zipParams.settings)
     IN  /\ archive' = IF image.outcome = "append"
                         THEN [archive EXCEPT !.entries =
                                 Append(@, [name |-> image.name, bytes |-> image.bytes])]
                         ELSE archive
         /\ warnings' = IF image.outcome = "warn"
                          THEN Append(warnings, record.productId)
                          ELSE warnings
  /\ visited' = visited + 1
  /\ UNCHANGED <<zip, zipParams>>
  /\ zipFrame

(* lines 821-831: the loop is over; the manifest and the README are added *)
(* and archive.finalize() is called                                       *)
ZipTail ==
  /\ zip = "records"
  /\ visited = Len(zipParams.records)
  /\ archive' = [archive EXCEPT !.entries = @ \o TailEntries(zipParams.manifestKey)]
  /\ zip' = "finalize"
  /\ UNCHANGED <<zipParams, visited, warnings>>
  /\ zipFrame

ZipFinalizedThenStat ==
  /\ zip = "finalize"
  /\ archive' = [archive EXCEPT !.finalized = TRUE]
  /\ zip' = "stat"
  /\ UNCHANGED <<zipParams, visited, warnings>>
  /\ zipFrame

(* line 831: archive.finalize() resolves *)
ZipFinalized ==
  /\ zip = "finalize"
  /\ archive' = [archive EXCEPT !.finalized = TRUE]
  /\ zip' = "closing"
  /\ UNCHANGED <<zipParams, visited, warnings>>
  /\ zipFrame

(* lines 787-790, 832: the write stream closes and `completion` resolves *)
ZipStreamClosed ==
  /\ zip = "closing"
  /\ archive' = [archive EXCEPT !.closed = TRUE]
  /\ zip' = "stat"
  /\ UNCHANGED <<zipParams, visited, warnings>>
  /\ zipFrame

(* lines 789, 831-832: the archive emits an error; finalize or `completion` *)
(* rejects and so does buildImagesZip                                       *)
ZipArchiveError ==
  /\ zip \in {"finalize", "closing"}
  /\ zip' = "threw"
  /\ UNCHANGED <<zipParams, visited, archive, warnings>>
  /\ zipFrame

(* lines 833-834: the size of the file is read and returned *)
ZipStat ==
  /\ zip = "stat"
  /\ zip' = "returned"
  /\ UNCHANGED <<zipParams, visited, archive, warnings>>
  /\ zipFrame

\* buildImagesZip has not been called yet
ZipInit ==
  /\ MainInit
  /\ RecordIdle
  /\ ExtractIdle
  /\ ArrangeIdle
  /\ PdfIdle
  /\ OverlayIdle
  /\ PriceIdle
  /\ zip = "start"
  /\ zipParams = NoLocals
  /\ visited = 0
  /\ archive = NoLocals
  /\ warnings = <<>>

ZipNext ==
  \/ ZipStart
  \/ ZipNextRecord
  \/ ZipTail
  \/ ZipFinalized
  \/ ZipStreamClosed
  \/ ZipArchiveError
  \/ ZipStat

ZipSpec == ZipInit /\ [][ZipNext]_vars

----------------------------------------------------------------------------
(* The record builder: buildProductRecord, lines 578-618 *)

\* Variant prices are the decimal strings of the catalog's Money values.
\* Number(value) is the number a price string parses to, in hundredths, and
\* String(n) the shortest decimal string of a number: Number drops trailing
\* zeros of the fraction, so String(Number("10.00")) = "10".
Number(value) ==
  CASE value = "10.00" -> 1000
    [] value = "10" -> 1000
    [] value = "9.5" -> 950
    [] value = "9.50" -> 950
    [] value = "25" -> 2500

String(n) ==
  CASE n = 1000 -> "10"
    [] n = 950 -> "9.5"
    [] n = 2500 -> "25"

\* Math.min(...numeric) and Math.max(...numeric) of a non-empty array
RECURSIVE MathMinOf(_)
MathMinOf(numeric) ==
  IF Len(numeric) = 1 THEN numeric[1]
  ELSE MathMin(numeric[1], MathMinOf(Tail(numeric)))

RECURSIVE MathMaxOf(_)
MathMaxOf(numeric) ==
  IF Len(numeric) = 1 THEN numeric[1]
  ELSE MathMax(numeric[1], MathMaxOf(Tail(numeric)))

\* variants.map((variant) => variant.price)
VariantPrices(variants) == [i \in DOMAIN variants |-> variants[i].price]

DefaultVariantPriceOfLast(variants) ==
  IF variants = <<>> \/ variants[Len(variants)].price \in {Undefined, Null}
    THEN NoPrice
    ELSE Scalar(variants[Len(variants)].price)

\* line 585: defaultVariant?.price ?? null, defaultVariant being variants[0]
DefaultVariantPrice(variants) ==
  IF variants = <<>> \/ variants[1].price \in {Undefined, Null}
    THEN NoPrice
    ELSE Scalar(variants[1].price)

MinMaxRangeOfEnds(variants) ==
  LET prices == SelectSeq(VariantPrices(variants), Truthy)
      numeric == [i \in DOMAIN prices |-> Number(prices[i])]
  IN  IF Len(prices) > 0
        THEN Range(String(numeric[1]), String(numeric[Len(numeric)]))
        ELSE NoPrice

\* lines 587-593: the truthy prices are parsed; their extremes are formatted
MinMaxRange(variants) ==
  LET prices == SelectSeq(VariantPrices(variants), Truthy)
      numeric == [i \in DOMAIN prices |-> Number(prices[i])]
  IN  IF Len(prices) > 0
        THEN Range(String(MathMinOf(numeric)), String(MathMaxOf(numeric)))
        ELSE NoPrice

CoverUrlFirstImage(product) ==
  IF product.imageUrls # <<>> THEN product.imageUrls[1]
  ELSE IF product.featuredImageUrl \notin {Undefined, Null} THEN product.featuredImageUrl
  ELSE Null

\* line 603: product.featuredImageUrl ?? product.imageUrls[0] ?? null
CoverUrl(product) ==
  IF product.featuredImageUrl \notin {Undefined, Null} THEN product.featuredImageUrl
  ELSE IF product.imageUrls # <<>> THEN product.imageUrls[1]
  ELSE Null

\* buildProductRecord, lines 578-618.  A pricing mode that is none of the
\* three leaves the price null.
BuildProductRecord(product, s) ==
  LET pricingMode == IF s.pricingMode \in {Undefined, Null}
                       THEN "DEFAULT_VARIANT_PRICE" ELSE s.pricingMode
      variants == product.variants
      price == CASE pricingMode = "DEFAULT_VARIANT_PRICE" -> DefaultVariantPrice(variants)
                 [] pricingMode = "MIN_MAX_RANGE" -> MinMaxRange(variants)
                 [] pricingMode = "VARIANT_TABLE" ->
                      VariantTable([i \in DOMAIN variants |->
                                      [title |-> variants[i].title, price |-> variants[i].price]])
                 [] OTHER -> NoPrice
  IN  [productId |-> product.id,
       title |-> OrNull(product.title),
       collections |-> product.collections,
       coverUrl |-> CoverUrl(product),
       price |-> price]

PricingModes == {Undefined, "DEFAULT_VARIANT_PRICE", "MIN_MAX_RANGE", "VARIANT_TABLE"}

\* the variants of an accumulator (lines 463-467, 558-562): the price is a
\* decimal string or null
VariantPriceValues == {Null, "10.00", "9.5", "25"}

AccumulatorVariants ==
  UNION {[1..n -> [id : {"V1"}, title : {"v"}, price : VariantPriceValues]] :
           n \in 0..MaxVariants}

ImageUrlLists == UNION {[1..n -> {"u0", "u1"}] : n \in 0..MaxImages}

\* the accumulators the extractor hands over
ProductAccumulators ==
  [id : {"P1"}, title : {"A"}, featuredImageUrl : {Undefined, Null, "f"},
   imageUrls : ImageUrlLists, variants : AccumulatorVariants, collections : {<<>>}]

recordFrame == UNCHANGED <<mainVars, extractVars, arrangeVars, outputVars>>

(* runCatalogJob, line 154: buildProductRecord is called and returns *)
RunBuildProductRecord ==
  /\ buildCall = NoLocals
  /\ \E product \in ProductAccumulators : \E pricingMode \in PricingModes :
       /\ buildCall' = [product |-> product, settings |-> [pricingMode |-> pricingMode]]
       /\ productRecord' = BuildProductRecord(product, [pricingMode |-> pricingMode])
  /\ recordFrame

RecordInit ==
  /\ MainInit
  /\ ExtractIdle
  /\ ArrangeIdle
  /\ OutputIdle
  /\ RecordIdle

RecordNext == RunBuildProductRecord

RecordSpec == RecordInit /\ [][RecordNext]_vars

----------------------------------------------------------------------------
(* Vocabulary of the properties *)

\* downloadCovers has returned to runCatalogJob
Returned ==
  pc \in {"manifestWrite", "manifestFile", "update70", "buildPdf", "pdfFile",
          "update85", "buildZip", "zipFile", "update100", "done"}

RecordIds == DOMAIN records

\* record r is being fetched by some worker
Fetching(r) == \E w \in Workers : workers[w].rec = r /\ workers[w].pc = "fetching"

\* outcomes of a claimed record
MissingCover(r) == hist[r].claims > 0 /\ ~records[r].hasCover
Exhausted(r) ==
  hist[r].claims > 0 /\ records[r].hasCover /\ hist[r].okAttempt = 0 /\ ~Fetching(r)

\* number of JobIssue rows of a type and severity for record r
IssueCount(type, severity, r) ==
  CopiesIn([type |-> type, severity |-> severity, productId |-> r], issues)

\* number of all JobIssue rows for record r
IssuesFor(r) ==
  IssueCount("MISSING_COVER", "WARN", r) + IssueCount("MISSING_COVER", "ERROR", r)
  + IssueCount("IMAGE_DOWNLOAD_FAILED", "WARN", r)
  + IssueCount("IMAGE_DOWNLOAD_FAILED", "ERROR", r)

BulkPcs == {"bulkStart", "bulkPoll", "bulkSleep", "bulkParse"}

BulkReasons ==
  {"Bulk operation failed to start", "Bulk status query failed", "Bulk operation missing",
   "Bulk operation FAILED", "Bulk operation CANCELED", "Bulk operation timed out",
   "Failed to download bulk results"}

----------------------------------------------------------------------------
(* C1: once downloadCovers has processed all N records, the stored counts   *)
(* are productsProcessed = N, imagesDownloaded = number of records whose    *)
(* download succeeded, imagesFailed = number of records with a missing      *)
(* cover or an exhausted download, whatever the interleaving of the reads   *)
(* and writes of incrementCounts.  Violated: two workers read the same row  *)
(* and the later write overwrites the earlier increment.                    *)
C1_NoIncrementLost ==
  Returned =>
    /\ Get(job.counts, "productsProcessed") = Len(records)
    /\ Get(job.counts, "imagesDownloaded") =
         Cardinality({r \in RecordIds : records[r].localCoverPath})
    /\ Get(job.counts, "imagesFailed") =
         Cardinality({r \in RecordIds : MissingCover(r) \/ Exhausted(r)})

(* C2: every record of the input list is claimed from the shared queue by   *)
(* exactly one worker: never twice, no two workers hold the same record,    *)
(* and when downloadCovers returns every record was claimed and processed.  *)
C2_EachRecordClaimedOnce ==
  /\ \A r \in RecordIds : hist[r].claims <= 1
  /\ \A v, w \in Workers :
       (v # w /\ workers[v].rec # 0) => workers[v].rec # workers[w].rec
  /\ Returned => \A r \in RecordIds : hist[r].claims = 1 /\ hist[r].finished

\* downloadCovers has returned after the workers went back to a queue that
\* still held records
C2_Witness ==
  /\ pc = "manifestWrite"
  /\ Len(records) > concurrency
  /\ \A r \in RecordIds : hist[r].claims = 1

\* the final status matches the outcomes of the records, and hasFailures is
\* set as soon as a record has a failure outcome
StatusMatchesFailures ==
  /\ pc = "done" =>
       job.status = IF \E r \in RecordIds : MissingCover(r) \/ Exhausted(r)
                      THEN "PARTIAL" ELSE "COMPLETED"
  /\ (pc \in {"workers", "rejected"} \/ Returned) =>
       \A r \in RecordIds : (MissingCover(r) \/ Exhausted(r)) => hasFailures

(* C3: the final update sets COMPLETED iff no record had a missing cover or *)
(* an exhausted download, else PARTIAL; hasFailures is true as soon as a    *)
(* record has such an outcome and never goes back to false.                 *)
C3_FinalStatus ==
  []StatusMatchesFailures /\ [][hasFailures => hasFailures']_vars

\* a run that ended PARTIAL because a download was exhausted
C3_Witness ==
  /\ pc = "done"
  /\ job.status = "PARTIAL"
  /\ \E r \in RecordIds : Exhausted(r)

(* C4: progressPercent never decreases: every write of the run (stage       *)
(* updates, the fallback label update, incrementCounts) and of the failed   *)
(* handler leaves it equal or greater.                                      *)
C4_ProgressMonotone ==
  [][job'.progressPercent >= job.progressPercent]_vars

\* a run has reached 100 after incrementCounts wrote the counts
C4_Witness ==
  /\ job.progressPercent = 100
  /\ Get(job.counts, "productsProcessed") > 0

(* C5: runCatalogJob writes only RUNNING (its first write) and COMPLETED or *)
(* PARTIAL (its last); FAILED is written by the failed handler alone.       *)
C5_RunNeverWritesFailed ==
  \A i \in DOMAIN statusWrites :
    LET w == statusWrites[i] IN
      /\ w.by = "runCatalogJob" =>
           /\ w.status \in {"RUNNING", "COMPLETED", "PARTIAL"}
           /\ w.status = "RUNNING" <=> i = 1
      /\ w.status = "FAILED" => w.by = "failedHandler"

\* the run marked the job RUNNING, failed in the image stage with a record
\* that had a failure, and the handler marked it FAILED
C5_Witness ==
  /\ Len(statusWrites) = 2
  /\ statusWrites[2].status = "FAILED"
  /\ hasFailures
  /\ job.status = "FAILED"

BulkErrorRunsFallback ==
  /\ pc \in BulkPcs => pc' \in BulkPcs \cup {"fallbackLabel", "update35"}
  /\ (bulkError' # bulkError /\ bulkError' # "none") =>
       (pc \in BulkPcs /\ pc' = "fallbackLabel")

\* the image stage starts with the fallback's products iff the bulk path
\* failed, and a job is never marked FAILED with an error of the bulk path
ImageStageHasFallbackProducts ==
  /\ pc \in {"fallbackLabel", "fallbackFetch"} => bulkError \in BulkReasons
  /\ pc = "update35" => (source = "fallback" <=> bulkError \in BulkReasons)
  /\ pc = "update35" => (source = "bulk" <=> bulkError = "none")
  /\ job.status = "FAILED" => job.errorSummary \notin BulkReasons

(* C7: a failure of the bulk path (start error, FAILED, CANCELED, timeout,   *)
(* missing operation, result download failure) never rejects the run: the    *)
(* next step is the fallback, the image stage starts with the fallback's     *)
(* products, and the error a job is marked FAILED with is never a bulk one.  *)
C7_BulkFailureFallsBack ==
  []ImageStageHasFallbackProducts /\ [][BulkErrorRunsFallback]_vars

\* the bulk wait timed out and the image stage starts with the fallback's products
C7_Witness ==
  /\ pc = "update35"
  /\ source = "fallback"
  /\ bulkError = "Bulk operation timed out"

(* C8: waitForBulkResult sends no poll after a poll has reported COMPLETED,  *)
(* FAILED or CANCELED, nor once the 10-minute limit has elapsed.  Violated:  *)
(* a poll that reports COMPLETED without a result url is followed by a sleep *)
(* and further polls, until the limit.                                       *)
C8_NoPollAfterTerminalStatus ==
  [][bulk'.polls > bulk.polls =>
       /\ PollStatus(bulk.last) \notin {"COMPLETED", "FAILED", "CANCELED"}
       /\ bulk'.elapsed <= bulkMaxWaitMs]_vars

(* C9: a download whose first ok response is on attempt k (1 <= k <= 3) has  *)
(* done exactly k fetches, has no JobIssue, and once processed has applied   *)
(* exactly one count update: imagesDownloaded +1, productsProcessed +1.      *)
C9_SuccessOnAttemptK ==
  \A r \in RecordIds :
    hist[r].okAttempt > 0 =>
      /\ hist[r].okAttempt <= 3
      /\ hist[r].fetches = hist[r].okAttempt
      /\ IssuesFor(r) = 0
      /\ hist[r].updates \in {<<>>, <<[imagesDownloaded |-> 1, productsProcessed |-> 1]>>}
      /\ hist[r].finished => Len(hist[r].updates) = 1

\* a record was processed whose download succeeded on the third attempt
C9_Witness ==
  \E r \in RecordIds : hist[r].finished /\ hist[r].okAttempt = 3

(* C10: a download that failed on all 3 attempts has done exactly 3 fetches, *)
(* has exactly one JobIssue, of type IMAGE_DOWNLOAD_FAILED and severity      *)
(* WARN, once createIssue is through, and once processed has applied exactly *)
(* one count update: imagesFailed +1, productsProcessed +1.                  *)
C10_ExhaustedDownload ==
  \A r \in RecordIds :
    Exhausted(r) =>
      /\ hist[r].fetches = 3
      /\ IssuesFor(r) <= 1
      /\ IssuesFor(r) = IssueCount("IMAGE_DOWNLOAD_FAILED", "WARN", r)
      /\ hist[r].updates \in {<<>>, <<[imagesFailed |-> 1, productsProcessed |-> 1]>>}
      /\ hist[r].finished =>
           /\ Len(hist[r].updates) = 1
           /\ IssuesFor(r) = 1

\* a record was processed whose three fetches all failed
C10_Witness ==
  \E r \in RecordIds : hist[r].finished /\ Exhausted(r) /\ IssuesFor(r) = 1

(* C11: a record with no cover URL is never fetched, has exactly one        *)
(* JobIssue, of type MISSING_COVER and severity WARN, once createIssue is   *)
(* through, and once processed has applied exactly one count update:        *)
(* imagesFailed +1, productsProcessed +1.                                   *)
C11_MissingCover ==
  \A r \in RecordIds :
    MissingCover(r) =>
      LET issued == IssuesFor(r) IN
      /\ hist[r].fetches = 0
      /\ hist[r].okAttempt = 0
      /\ ~records[r].localCoverPath
      /\ issued <= 1
      /\ issued = IssueCount("MISSING_COVER", "WARN", r)
      /\ hist[r].updates \in {<<>>, <<[imagesFailed |-> 1, productsProcessed |-> 1]>>}
      /\ hist[r].finished =>
           /\ Len(hist[r].updates) = 1
           /\ issued = 1

\* a record without cover URL was processed next to one that was fetched
C11_Witness ==
  \E r, q \in RecordIds :
    /\ hist[r].finished /\ MissingCover(r) /\ IssuesFor(r) = 1
    /\ hist[q].fetches > 0

\* the records whose cover was not downloaded
NotDownloaded == {r \in RecordIds : ~records[r].localCoverPath}

(* C12: when the run has made its final update, the number of JobIssue rows *)
(* equals the number of records whose cover was not downloaded, each such   *)
(* record having one row: none when the status is COMPLETED, at least one   *)
(* when it is PARTIAL.                                                      *)
C12_IssuesMatchFailures ==
  pc = "done" =>
    /\ BagCardinality(issues) = Cardinality(NotDownloaded)
    /\ NotDownloaded = {r \in RecordIds : MissingCover(r) \/ Exhausted(r)}
    /\ \A r \in RecordIds : IssuesFor(r) = IF r \in NotDownloaded THEN 1 ELSE 0
    /\ job.status = "COMPLETED" => BagCardinality(issues) = 0
    /\ job.status = "PARTIAL" => BagCardinality(issues) >= 1

\* a run ended PARTIAL with a missing cover, an exhausted download and a
\* downloaded cover
C12_Witness ==
  /\ pc = "done"
  /\ job.status = "PARTIAL"
  /\ BagCardinality(issues) = 2
  /\ \E r, q \in RecordIds : MissingCover(r) /\ Exhausted(q)
  /\ \E r \in RecordIds : records[r].localCoverPath

\* the one step that may change progressPercent to each checkpoint
ProgressCheckpoint ==
  job'.progressPercent # job.progressPercent =>
    CASE job'.progressPercent = 5 ->
           /\ job.progressPercent = 0
           /\ job'.currentStep = "Collecting products"
           /\ pc = "queued" /\ pc' = "bulkStart"
           /\ bulk = NoBulk /\ source = "none"
      [] job'.progressPercent = 35 ->
           /\ job.progressPercent = 5
           /\ job'.currentStep = "Downloading cover images"
           /\ source \in {"bulk", "fallback"}
           /\ \A w \in Workers : workers[w].pc = "unborn"
      [] job'.progressPercent = 70 ->
           /\ job.progressPercent = 35
           /\ job'.currentStep = "Building PDF"
           /\ \A r \in RecordIds : hist[r].finished
           /\ \A w \in Workers : workers[w].pc = "done"
           /\ files = <<FileRow("MANIFEST")>>
      [] job'.progressPercent = 85 ->
           /\ job.progressPercent = 70
           /\ job'.currentStep = "Packaging ZIP"
           /\ files = <<FileRow("MANIFEST"), FileRow("PDF")>>
      [] job'.progressPercent = 100 ->
           /\ job.progressPercent = 85
           /\ job'.currentStep = "Completed"
           /\ files = <<FileRow("MANIFEST"), FileRow("PDF"), FileRow("IMAGES_ZIP")>>
           /\ pc' = "done"
      [] OTHER -> FALSE

(* C13: progressPercent is written in the order 5, 35, 70, 85, 100, each    *)
(* with its step label: 5 before extraction starts, 35 once the bulk or the *)
(* fallback path has delivered the products, 70 once every record was       *)
(* processed and the manifest stored and registered, 85 once the PDF is     *)
(* registered, 100 once the ZIP is registered; a run that resolved is at    *)
(* 100.                                                                     *)
C13_ProgressCheckpoints ==
  [][ProgressCheckpoint]_vars /\ [](pc = "done" => job.progressPercent = 100)

\* a run over some records resolved at 100%
C13_Witness ==
  /\ pc = "done"
  /\ job.progressPercent = 100
  /\ job.currentStep = "Completed"
  /\ Len(records) > 0

\* the records that were taken from the queue and are not processed to the end
InProcess == {r \in RecordIds : hist[r].claims > 0 /\ ~hist[r].finished}

(* C17: at no moment are more records in process than the pool has workers, *)
(* and every record in the hands of a worker is one of them; with fewer     *)
(* records than workers the surplus workers are finished as soon as they    *)
(* have started and never hold a record.                                    *)
C17_BoundedPool ==
  /\ Cardinality(InProcess) <= concurrency
  /\ \A w \in Workers :
       workers[w].rec # 0 =>
         hist[workers[w].rec].claims > 0 /\ ~hist[workers[w].rec].finished
  /\ \A w \in Workers :
       (w > Len(records) /\ workers[w].pc # "unborn") =>
          workers[w].pc = "done" /\ workers[w].rec = 0

\* the whole pool is busy while the queue still holds a record
C17_Witness ==
  /\ pc = "workers"
  /\ Cardinality(InProcess) = concurrency
  /\ queue # <<>>

(* C14: the array the extractor returns holds at most one accumulator per   *)
(* product id, from the result stream and from the pages alike.  Violated:  *)
(* fetchProductsPaginated pushes one accumulator per edge, so a product     *)
(* that is on two pages (or twice on one) is returned twice.                *)
C14_OneAccumulatorPerId ==
  extract \in {"parsed", "paged"} =>
    \A i, j \in DOMAIN output : output[i].id = output[j].id => i = j

\* a child line, and the product a line belongs to
IsChild(line) == Truthy(line.parentId)
Owner(line) == IF IsChild(line) THEN line.parentId ELSE line.id

\* the streams that deliver the lines of `lines` in another order, in which
\* the children of each product keep their relative order, and so do the
\* product lines of each product
Reorderings(lines) ==
  {[i \in DOMAIN lines |-> lines[p[i]]] :
     p \in {q \in Permutations(DOMAIN lines) :
              \A i, j \in DOMAIN lines :
                (/\ i < j
                 /\ Owner(lines[q[i]]) = Owner(lines[q[j]])
                 /\ IsChild(lines[q[i]]) = IsChild(lines[q[j]])) => q[i] < q[j]}}

\* the accumulators of an array, whatever their order
Accumulators(products) == {products[i] : i \in DOMAIN products}

(* C15: the accumulators parseBulkResults returns for a stream are those it *)
(* returns for every reordering of the stream that keeps the relative order *)
(* of each product's children: same fields, variants, image URLs and        *)
(* collections.  Violated: a product line appends its inline first image    *)
(* url to imageUrls, so an image line that arrives before its product line  *)
(* ends up before the inline url, and after it otherwise.                   *)
C15_OrderIndependent ==
  extract = "parsed" =>
    \A other \in Reorderings(stream.lines) :
      Accumulators(BulkAccumulators(other)) = Accumulators(output)

\* the nodes of all pages received, in page order, as accumulators
RECURSIVE AllPages(_)
AllPages(responses) ==
  IF responses = <<>> THEN <<>>
  ELSE PushEdges(AllPages(SubSeq(responses, 1, Len(responses) - 1)),
                 responses[Len(responses)].edges)

(* C16: every page request carries the predicate of the bulk query and the  *)
(* cursor of the last edge of the page before; a further request is made    *)
(* only after a page that reported a next page, the loop ends only with a   *)
(* page that reports none, and the products of all pages are returned in    *)
(* page order.  Violated: a response without a products payload ends the    *)
(* loop although the last page reported a next page; the products of the    *)
(* pages so far are returned as the whole catalog.                          *)
C16_PagesUntilNoNext ==
  extract \in {"paging", "paged", "threw"} =>
  LET requests == pager.requests
      responses == pager.responses
  IN  /\ \A k \in DOMAIN requests :
           /\ requests[k].query = BuildBulkQuery(pager.settings).query
           /\ k = 1 => requests[k].after = <<Null>>
           /\ (k > 1 /\ responses[k - 1].edges # <<>>) =>
                requests[k].after = responses[k - 1].edges[Len(responses[k - 1].edges)].cursor
           /\ k > 1 => HasNext(responses[k - 1])
      /\ extract = "paged" =>
           /\ responses[Len(responses)].payload
           /\ ~HasNext(responses[Len(responses)])
           /\ output = AllPages(responses)

\* the sort order in force, and the key a record is sorted by: a missing
\* key counts as the empty string
SortOrder == IF exportSettings.sortOrder = Undefined THEN "TITLE_ASC" ELSE exportSettings.sortOrder
SortKey(record) ==
  LET key == CASE SortOrder = "CREATED_DESC" -> record.createdAt
               [] SortOrder = "UPDATED_DESC" -> record.updatedAt
               [] OTHER -> record.title
  IN  IF key = Null THEN "" ELSE key

\* the place of a record in a list of records with distinct product ids
PlaceIn(list, record) == CHOOSE i \in DOMAIN list : list[i] = record

(* C18: for TITLE_ASC, CREATED_DESC and UPDATED_DESC the array sortRecords  *)
(* returns is a permutation of the records, ordered by the key (ascending   *)
(* for titles, descending for timestamps), and records with equal keys,     *)
(* a missing key counting as the empty string, keep their extraction order. *)
C18_StableSort ==
  (arrange \in {"sorted", "grouped"}
     /\ SortOrder \in {"TITLE_ASC", "CREATED_DESC", "UPDATED_DESC"}) =>
    /\ Len(sorted) = Len(unsorted)
    /\ \A r \in DOMAIN unsorted : \E i \in DOMAIN sorted : sorted[i] = unsorted[r]
    /\ \A i, j \in DOMAIN sorted :
         i < j =>
           /\ IF SortOrder = "TITLE_ASC"
                THEN Rank(SortKey(sorted[i])) <= Rank(SortKey(sorted[j]))
                ELSE Rank(SortKey(sorted[i])) >= Rank(SortKey(sorted[j]))
           /\ SortKey(sorted[i]) = SortKey(sorted[j]) =>
                PlaceIn(unsorted, sorted[i]) < PlaceIn(unsorted, sorted[j])

\* a descending sort moved a record to the front and kept the order of a
\* record without key and one with the empty key
C18_Witness ==
  /\ arrange = "sorted"
  /\ SortOrder = "CREATED_DESC"
  /\ Len(unsorted) = 3
  /\ unsorted[1].createdAt = Null /\ unsorted[2].createdAt = "" /\ unsorted[3].createdAt = "a"
  /\ sorted = <<unsorted[3], unsorted[1], unsorted[2]>>

\* the grouping in force, the headers of the item sequence, and the header
\* a product item stands under (0: none)
Grouping == IF exportSettings.grouping = Undefined THEN "NONE" ELSE exportSettings.grouping
Headers == {h \in DOMAIN items : items[h].kind = "header"}
HeaderOf(i) ==
  IF \E h \in Headers : h < i
    THEN CHOOSE h \in Headers : h < i /\ \A g \in Headers : g < i => g <= h
    ELSE 0

(* C19: with a grouping other than NONE every product item stands under a   *)
(* header whose title is the item's group key, every record of the input is *)
(* in exactly one product item, and the headers are one per group key of    *)
(* the input.  With grouping NONE there is no header and the items are the  *)
(* records in input order.                                                  *)
C19_HeadersAndGroups ==
  arrange = "grouped" =>
    IF Grouping = "NONE"
      THEN /\ Len(items) = Len(sorted)
           /\ \A i \in DOMAIN items : items[i] = ProductItem(sorted[i])
      ELSE /\ \A i \in DOMAIN items \ Headers :
                /\ items[i].kind = "product"
                /\ HeaderOf(i) # 0
                /\ items[HeaderOf(i)].title = GroupKey(items[i].record, exportSettings)
           /\ \A r \in DOMAIN sorted :
                Cardinality({i \in DOMAIN items : items[i] = ProductItem(sorted[r])}) = 1
           /\ Cardinality(DOMAIN items \ Headers) = Len(sorted)
           /\ \A g, h \in Headers : items[g].title = items[h].title => g = h
           /\ {items[h].title : h \in Headers} =
                {GroupKey(sorted[r], exportSettings) : r \in DOMAIN sorted}

\* grouped by collection: the first and the third record resolve to the
\* same title, the second to another one
C19_Witness ==
  /\ arrange = "grouped"
  /\ Grouping = "COLLECTION"
  /\ Len(sorted) = 3
  /\ Cardinality(Headers) = 2
  /\ GroupKey(sorted[1], exportSettings) = GroupKey(sorted[3], exportSettings)
  /\ sorted[1].collections # sorted[3].collections

\* the place in the sorted list where a group key is first met
FirstMet(key) ==
  CHOOSE r \in DOMAIN sorted :
    /\ GroupKey(sorted[r], exportSettings) = key
    /\ \A q \in DOMAIN sorted : GroupKey(sorted[q], exportSettings) = key => r <= q

(* C20: the headers come in the order in which their keys are first met in  *)
(* the sorted list, and the product items of a group come in the order of   *)
(* their records in the sorted list.                                        *)
C20_FirstEncounteredOrder ==
  (arrange = "grouped" /\ Grouping # "NONE") =>
    /\ \A g, h \in Headers :
         g < h => FirstMet(items[g].title) < FirstMet(items[h].title)
    /\ \A i, j \in DOMAIN items \ Headers :
         (i < j /\ HeaderOf(i) = HeaderOf(j)) =>
            PlaceIn(sorted, items[i].record) < PlaceIn(sorted, items[j].record)

\* grouped by vendor after a sort changed the order: the vendor met first
\* comes back after another one
C20_Witness ==
  /\ arrange = "grouped"
  /\ Grouping = "VENDOR"
  /\ sorted # unsorted
  /\ Len(sorted) = 3
  /\ sorted[1].vendor = sorted[3].vendor
  /\ sorted[1].vendor # sorted[2].vendor
  /\ items = <<HeaderItem(OrUnassigned(sorted[1].vendor)), ProductItem(sorted[1]),
               ProductItem(sorted[3]), HeaderItem(OrUnassigned(sorted[2].vendor)),
               ProductItem(sorted[2])>>

----------------------------------------------------------------------------
(* Vocabulary of the properties of the PDF layout engine *)

PdfRunning == pdf \in {"layout", "saved", "storeFailed", "threw"}
PdfComplete == pdf \in {"saved", "storeFailed"}
PdfLayout == Layout(pdfParams.settings)
PdfColumns == Columns(pdfParams.settings)

\* the drawing calls of a page that draw a header title, and those that draw
\* a cover or its placeholder
HeaderDraws(p) == {d \in DOMAIN pages[p] : pages[p][d].draw = "header"}
CoverDraws(p) == {d \in DOMAIN pages[p] : pages[p][d].draw \in {"image", "placeholder"}}

\* the page is the page of the item: a header's title alone, or the cover of
\* the item's product alone
PageOfItem(p, item) ==
  IF item.kind = "header"
    THEN /\ CoverDraws(p) = {}
         /\ Cardinality(HeaderDraws(p)) = 1
         /\ \A d \in HeaderDraws(p) : pages[p][d].text = item.title
    ELSE /\ HeaderDraws(p) = {}
         /\ Cardinality(CoverDraws(p)) = 1
         /\ \A d \in CoverDraws(p) : pages[p][d].id = item.record.productId

(* C21: with layout ONE_PER_PAGE the document has one page per item of the  *)
(* grouped sequence, in sequence order: the i-th page shows the i-th item,  *)
(* a header's title or a product's cover, and when the loop is over there   *)
(* are as many pages as items.                                              *)
C21_OnePagePerItem ==
  (pdf \in {"layout", "saved", "storeFailed"} /\ PdfLayout = "ONE_PER_PAGE") =>
    /\ Len(pages) = index
    /\ \A p \in DOMAIN pages : PageOfItem(p, groupedItems[p])
    /\ PdfComplete => Len(pages) = Len(groupedItems)

\* a document of two sections, one page per item
C21_Witness ==
  /\ pdf = "saved"
  /\ PdfLayout = "ONE_PER_PAGE"
  /\ Len(pages) = Len(groupedItems)
  /\ Cardinality({p \in DOMAIN pages : HeaderDraws(p) # {}}) = 2
  /\ Cardinality({p \in DOMAIN pages : CoverDraws(p) # {}}) >= 3

HeaderItems == {i \in DOMAIN groupedItems : groupedItems[i].kind = "header"}
HeaderPages == {p \in DOMAIN pages : HeaderDraws(p) # {}}

\* the k-th element of a set of positions, and the number of positions that
\* follow position x before the next element of the set (or the end, len)
Kth(S, k) == CHOOSE x \in S : Cardinality({y \in S : y < x}) = k - 1
RunAfter(S, x, len) ==
  LET later == {y \in S : y > x}
      next == IF later = {} THEN len + 1 ELSE CHOOSE y \in later : \A z \in later : y <= z
  IN  next - x - 1

Ceil(n, d) == (n + d - 1) \div d

\* the pages of a finished GRID document: a page per header, and behind the
\* k-th header page the product pages of the k-th section; the items before
\* the first header (all items, with grouping NONE) likewise
GridPageCount ==
  (PdfComplete /\ PdfLayout = "GRID") =>
    /\ Cardinality(HeaderPages) = Cardinality(HeaderItems)
    /\ RunAfter(HeaderPages, 0, Len(pages))
         = Ceil(RunAfter(HeaderItems, 0, Len(groupedItems)), rows * PdfColumns)
    /\ \A k \in 1..Cardinality(HeaderItems) :
         RunAfter(HeaderPages, Kth(HeaderPages, k), Len(pages))
           = Ceil(RunAfter(HeaderItems, Kth(HeaderItems, k), Len(groupedItems)),
                  rows * PdfColumns)

(* C22: with layout GRID (3 rows, 2, 3 or 4 columns) the finished document  *)
(* has for each section one header page followed by ceil(n / (3 * columns)) *)
(* product pages, n the number of items of the section, and with grouping   *)
(* NONE ceil(N / (3 * columns)) pages for N products; the loop comes to its *)
(* end for every grouped sequence.                                          *)
C22_GridPageCount == []GridPageCount /\ ((pdf = "layout") ~> (pdf # "layout"))

\* one section of seven products in two columns: a header page, a full page
\* and a page with the seventh product
C22_Witness ==
  /\ pdf = "saved"
  /\ PdfLayout = "GRID"
  /\ PdfColumns = 2
  /\ Cardinality(HeaderItems) = 1
  /\ Len(groupedItems) = 8
  /\ Len(pages) = 3

\* the d-th drawing call of page p is its k-th cover (k from 0)
CoverRank(p, d) == Cardinality({e \in CoverDraws(p) : e < d})

\* the covers drawn for product id, over all pages
DrawnFor(id) ==
  {<<p, d>> \in UNION {{p} \X CoverDraws(p) : p \in DOMAIN pages} : pages[p][d].id = id}

(* C23: with layout GRID a header has a page of its own, which holds no     *)
(* product cell; on a product page the k-th product (k from 0) is in row    *)
(* floor(k / columns) and column k mod columns; every product the loop has  *)
(* passed is drawn exactly once and no other is drawn.                      *)
C23_GridPlacement ==
  (PdfRunning /\ PdfLayout = "GRID") =>
    /\ \A p \in DOMAIN pages :
         /\ HeaderDraws(p) # {} => (CoverDraws(p) = {} /\ Cardinality(HeaderDraws(p)) = 1)
         /\ \A d \in CoverDraws(p) :
              /\ pages[p][d].row = CoverRank(p, d) \div PdfColumns
              /\ pages[p][d].col = CoverRank(p, d) % PdfColumns
              /\ pages[p][d].row < rows
    /\ pdf # "threw" =>
         \A i \in DOMAIN groupedItems :
           groupedItems[i].kind = "product" =>
             Cardinality(DrawnFor(groupedItems[i].record.productId))
               = IF i <= index THEN 1 ELSE 0

\* a finished document with header pages and a product page whose second
\* row is in use
C23_Witness ==
  /\ pdf = "saved"
  /\ PdfLayout = "GRID"
  /\ Cardinality(HeaderPages) = 2
  /\ \E p \in DOMAIN pages : \E d \in CoverDraws(p) : pages[p][d].row = 1 /\ pages[p][d].col = 1

\* the product items whose cover is absent or is not accepted by the embedder
NoCover(i) ==
  /\ groupedItems[i].kind = "product"
  /\ \/ ~Truthy(groupedItems[i].record.localCoverPath)
     \/ ~Readable(groupedItems[i].record.localCoverPath)
     \/ ~Embeddable(groupedItems[i].record.localCoverPath)

(* C24: a product whose cover is absent or cannot be embedded is drawn with *)
(* the placeholder, and no problem with a cover image aborts buildPdf: it   *)
(* never rejects from a drawing call, and when the loop is over every item  *)
(* has its page or cell.  Violated: drawImageOrPlaceholder reads the cover  *)
(* file outside its try block, so a cover file that cannot be read rejects  *)
(* buildPdf in the middle of a page.                                        *)
C24_CoverProblemNeverAborts ==
  PdfRunning =>
    /\ pdf # "threw"
    /\ \A i \in DOMAIN groupedItems :
         (NoCover(i) /\ i <= index) =>
           \E p \in DOMAIN pages : \E d \in DOMAIN pages[p] :
             /\ pages[p][d].draw = "placeholder"
             /\ pages[p][d].id = groupedItems[i].record.productId
    /\ PdfComplete => index = Len(groupedItems)

WatermarkEnabled == pdfParams.settings.watermarkEnabled = <<TRUE>>
WatermarkDraws(p) == {d \in DOMAIN pages[p] : pages[p][d].draw = "watermark"}

----------------------------------------------------------------------------
(* Properties of resolveOverlayStyle *)

OverlayReturned == overlayCall # NoLocals

(* C26: for any ratios x, y, width, height of the rect (negative, above 1   *)
(* and NaN included) and any image size W x H, the rectangle that           *)
(* resolveOverlayStyle returns lies in the image: 0 <= x, 0 <= y,           *)
(* x + width <= W and y + height <= H, with width and height not negative.  *)
C26_RectInImage ==
  OverlayReturned =>
    /\ 0 <= resolved.x
    /\ 0 <= resolved.y
    /\ 0 <= resolved.width
    /\ 0 <= resolved.height
    /\ resolved.x + resolved.width <= overlayCall.imageWidth
    /\ resolved.y + resolved.height <= overlayCall.imageHeight

\* a rect that starts left of the image, is wider than it and has a NaN
\* height comes back as the full width at x = 0 with height 0
C26_Witness ==
  /\ OverlayReturned
  /\ overlayCall.overlay.rect # Absent
  /\ overlayCall.overlay.rect[1].x = Hundredths(-50)
  /\ overlayCall.overlay.rect[1].y = Hundredths(150)
  /\ overlayCall.overlay.rect[1].width = Hundredths(150)
  /\ overlayCall.overlay.rect[1].height = NaN
  /\ overlayCall.imageWidth = 3
  /\ resolved.x = 0
  /\ resolved.width = 3
  /\ resolved.height = 0
  /\ resolved.y = overlayCall.imageHeight

----------------------------------------------------------------------------
(* Properties of formatPrice *)

PriceReturned == priceCall # NoLocals
CalledWith(price, currencyPrefix) ==
  priceCall.price = price /\ priceCall.currencyPrefix = currencyPrefix

\* the prefix in use: the one given, "$" when none is
PrefixInUse == IF priceCall.currencyPrefix = Undefined THEN "$" ELSE priceCall.currencyPrefix

(* C30: what formatPrice returns is fixed by (price, prefix), the prefix     *)
(* being "$" when none is given: a scalar price gives prefix+price, a range  *)
(* prefix+min " - " prefix+max, a variant table whose first variant has a    *)
(* price prefix + that price whatever the later variants are, a null price   *)
(* null; the three cases of the test file give "$19.99", "$10 - $25" and     *)
(* "$5.00".  The empty string counts as no price and gives null.             *)
C30_FormatPrice ==
  PriceReturned =>
    LET price == priceCall.price IN
    /\ price.kind = "null" => priceText = Null
    /\ (price.kind = "string" /\ price.value # "") =>
         priceText = PrefixInUse \o price.value
    /\ price.kind = "range" =>
         priceText = PrefixInUse \o price.min \o " - " \o PrefixInUse \o price.max
    /\ (price.kind = "variants" /\ price.variants # <<>>) =>
         /\ Truthy(Head(price.variants).price) =>
              priceText = PrefixInUse \o Head(price.variants).price
         /\ priceText = FormatPrice(VariantTable(<<Head(price.variants)>>),
                                    priceCall.currencyPrefix)
    /\ CalledWith(Scalar("19.99"), Undefined) => priceText = "$19.99"
    /\ CalledWith(Range("10", "25"), Undefined) => priceText = "$10 - $25"
    /\ CalledWith(VariantTable(<<[title |-> "Small", price |-> "5.00"]>>), Undefined) =>
         priceText = "$5.00"

\* a table of two variants with different prices, under a given prefix
C30_Witness ==
  /\ PriceReturned
  /\ priceCall.price.kind = "variants"
  /\ Len(priceCall.price.variants) = 2
  /\ priceCall.price.variants[1].price = "5.00"
  /\ priceCall.price.variants[2].price = "7"
  /\ priceCall.currencyPrefix = "EUR "
  /\ priceText = "EUR 5.00"

----------------------------------------------------------------------------
(* Properties of the archive builder *)

ZipRunning == zip \in {"records", "finalize", "closing", "stat", "returned", "threw"}
ZipLoopOver == zip \in {"finalize", "closing", "stat", "returned", "threw"}

\* the records the loop has been through that have a local cover and an
\* entry name
WithCover ==
  {i \in 1..visited : /\ Truthy(zipParams.records[i].localCoverPath)
                      /\ Truthy(zipParams.records[i].coverFileName)}

\* the price text of record i, and whether the overlay is put on its image
PriceTextOf(i) == FormatPrice(zipParams.records[i].price, OverlayPrefix(zipParams.settings))
Overlaid(i) == OverlayEnabled(zipParams.settings.priceOverlay) /\ PriceTextOf(i) # Null

\* the entries of record i in the archive
EntriesOf(i) ==
  {e \in DOMAIN archive.entries : archive.entries[e].name = zipParams.records[i].coverFileName}

\* the image entries of the archive: all but manifest.json and README.txt
ImageEntries ==
  {e \in DOMAIN archive.entries : archive.entries[e].name \notin {"manifest.json", "README.txt"}}

(* C27: a record whose cover was read but whose overlay could not be        *)
(* composited (the image does not decode) still has its entry in the        *)
(* archive, under its entry name, holding the bytes that were read.         *)
(* Violated: the rejection of applyPriceOverlay lands in the catch block of *)
(* the loop, which logs it and appends nothing.                             *)
C27_FallbackToSourceBytes ==
  ZipRunning =>
    \A i \in WithCover :
      (/\ Readable(zipParams.records[i].localCoverPath)
       /\ Overlaid(i)
       /\ ~Decodable(Bytes(zipParams.records[i].localCoverPath))) =>
        \E e \in EntriesOf(i) :
          archive.entries[e].bytes = Bytes(zipParams.records[i].localCoverPath)

\* the product ids of the records with a cover, in record order, without
\* those that were logged
RECURSIVE Appended(_)
Appended(n) ==
  IF n = 0 THEN <<>>
  ELSE IF n \in WithCover /\ \A w \in DOMAIN warnings : warnings[w] # zipParams.records[n].productId
    THEN Append(Appended(n - 1), zipParams.records[n].coverFileName)
  ELSE Appended(n - 1)

(* C28: a read or a composite that fails for one record does not end        *)
(* buildImagesZip: the record is logged, the loop goes on through all       *)
(* records in order, each record with a cover ending up logged or appended, *)
(* then README.txt is appended as the last entry and the archive is         *)
(* finalized before buildImagesZip returns.                                 *)
C28_EntryFailureNotFatal ==
  ZipRunning =>
    /\ visited <= Len(zipParams.records)
    /\ Cardinality(ImageEntries) + Len(warnings) = Cardinality(WithCover)
    /\ [e \in 1..Cardinality(ImageEntries) |-> archive.entries[e].name] = Appended(visited)
    /\ \A w \in DOMAIN warnings :
         \E i \in WithCover : zipParams.records[i].productId = warnings[w] /\ EntriesOf(i) = {}
    /\ ZipLoopOver =>
         /\ visited = Len(zipParams.records)
         /\ archive.entries # <<>>
         /\ archive.entries[Len(archive.entries)] = Readme
    /\ zip = "returned" => archive.finalized /\ archive.closed

\* the first record failed and was logged, the second was appended after it,
\* and the archive was finished with README.txt
C28_Witness ==
  /\ zip = "returned"
  /\ Len(zipParams.records) = 2
  /\ warnings = <<1>>
  /\ Cardinality(ImageEntries) = 1
  /\ archive.entries[1].name = zipParams.records[2].coverFileName
  /\ archive.entries[Len(archive.entries)].name = "README.txt"
  /\ archive.finalized

(* C29: the entry of a record holds the overlay of its price text when the  *)
(* overlay is enabled and the price formats to a text, and only then; when  *)
(* the overlay is disabled or missing, or the price formats to null, the    *)
(* entry holds the bytes that were read, unchanged.                         *)
C29_OverlayOnlyWhenEnabledAndPriced ==
  ZipRunning =>
    \A i \in WithCover : \A e \in EntriesOf(i) :
      IF Overlaid(i)
        THEN /\ archive.entries[e].bytes.overlay = PriceTextOf(i)
             /\ archive.entries[e].bytes.source = zipParams.records[i].localCoverPath
             /\ archive.entries[e].bytes.format \in {"png", "jpeg"}
        ELSE archive.entries[e].bytes = Bytes(zipParams.records[i].localCoverPath)

\* an archive with the overlay enabled: the record with a price has it on its
\* image, the record without price has its bytes as they were read
C29_Witness ==
  /\ zip = "returned"
  /\ OverlayEnabled(zipParams.settings.priceOverlay)
  /\ Len(zipParams.records) = 2
  /\ \E e \in EntriesOf(1) : archive.entries[e].bytes.overlay = "EUR 5"
  /\ \E e \in EntriesOf(2) : archive.entries[e].bytes = Bytes("ok.png")
  /\ zipParams.records[2].price = NoPrice


----------------------------------------------------------------------------
(* Properties of buildProductRecord *)

BuildReturned == buildCall # NoLocals

\* settings.pricingMode ?? "DEFAULT_VARIANT_PRICE" of the call
PricingModeInUse ==
  IF buildCall.settings.pricingMode = Undefined
    THEN "DEFAULT_VARIANT_PRICE" ELSE buildCall.settings.pricingMode

VariantsOfCall == buildCall.product.variants

\* the variant prices of the call that are not null
NonNullPrices == {VariantsOfCall[i].price : i \in DOMAIN VariantsOfCall} \ {Null}

\* C31: with pricing mode MIN_MAX_RANGE the price of the record is null when
\* no variant has a price that is not null, and otherwise {min, max}: min is
\* the numeric value of some variant's price and no variant's price is below
\* it, max likewise with none above it, and min <= max.
C31_MinMaxRange ==
  (BuildReturned /\ PricingModeInUse = "MIN_MAX_RANGE") =>
    LET values == {Number(p) : p \in NonNullPrices}
        price == productRecord.price
    IN  IF NonNullPrices = {}
          THEN price = NoPrice
          ELSE /\ price.kind = "range"
               /\ Number(price.min) \in values
               /\ Number(price.max) \in values
               /\ \A v \in values : Number(price.min) <= v /\ v <= Number(price.max)
               /\ Number(price.min) <= Number(price.max)

\* buildProductRecord has returned the range of two variants with different
\* prices, the larger one first and written with trailing zeros
C31_Witness ==
  /\ BuildReturned
  /\ PricingModeInUse = "MIN_MAX_RANGE"
  /\ Len(VariantsOfCall) >= 2
  /\ VariantsOfCall[1].price = "10.00"
  /\ VariantsOfCall[2].price = "9.5"
  /\ productRecord.price = Range("9.5", "10")

\* C32: with pricing mode DEFAULT_VARIANT_PRICE (named, or by default) the
\* price of the record is the price of the first variant of the accumulator,
\* the same string, and null when there is no variant; the record of any
\* accumulator that differs in its later variants only has the same price.
C32_DefaultVariantPrice ==
  (BuildReturned /\ PricingModeInUse = "DEFAULT_VARIANT_PRICE") =>
    LET price == productRecord.price
    IN  /\ VariantsOfCall = <<>> => price = NoPrice
        /\ VariantsOfCall # <<>> =>
             /\ VariantsOfCall[1].price = Null => price = NoPrice
             /\ VariantsOfCall[1].price # Null =>
                  price.kind = "string" /\ price.value = VariantsOfCall[1].price
             /\ \A v \in AccumulatorVariants :
                  (v # <<>> /\ v[1] = VariantsOfCall[1]) =>
                    BuildProductRecord([buildCall.product EXCEPT !.variants = v],
                                       buildCall.settings).price = price

\* buildProductRecord has returned the first variant's price, written with
\* trailing zeros, of an accumulator whose second variant has another price
C32_Witness ==
  /\ BuildReturned
  /\ PricingModeInUse = "DEFAULT_VARIANT_PRICE"
  /\ Len(VariantsOfCall) >= 2
  /\ VariantsOfCall[1].price = "10.00"
  /\ VariantsOfCall[2].price = "25"
  /\ productRecord.price = Scalar("10.00")

\* C33: the cover url of the record is the featured image url of the
\* accumulator when it has one, else the first of its image urls, else null.
C33_CoverUrl ==
  BuildReturned =>
    LET product == buildCall.product
        featured == product.featuredImageUrl \notin {Undefined, Null}
    IN  /\ featured => productRecord.coverUrl = product.featuredImageUrl
        /\ (~featured /\ product.imageUrls # <<>>) =>
             productRecord.coverUrl = product.imageUrls[1]
        /\ (~featured /\ product.imageUrls = <<>>) => productRecord.coverUrl = Null

\* buildProductRecord has returned the record of an accumulator without
\* featured image and with two different image urls
C33_Witness ==
  /\ BuildReturned
  /\ buildCall.product.featuredImageUrl = Null
  /\ buildCall.product.imageUrls = <<"u1", "u0">>
  /\ productRecord.coverUrl = "u1"


----------------------------------------------------------------------------
(* Properties of the group key *)

\* the ids of settings.collectionIds
SelectedIds == {exportSettings.collectionIds[k] : k \in DOMAIN exportSettings.collectionIds}

\* the places in a record's collections whose id is a selected one
Matching(record) == {k \in DOMAIN record.collections : record.collections[k].id \in SelectedIds}

\* the title of the header a product item stands under
HeaderTitle(i) == items[HeaderOf(i)].title

\* C34: in the grouped sequence a product item stands under the header of its
\* group key.  Grouped by COLLECTION the key is the title of the first of the
\* record's collections whose id is a selected collection id; without such a
\* collection the title of the record's first collection; without any
\* collection "Unassigned".  Grouped by VENDOR or PRODUCT_TYPE a record whose
\* vendor or product type is missing stands under "Unassigned", any other
\* under its vendor or product type.
C34_GroupKey ==
  (arrange = "grouped" /\ Grouping # "NONE") =>
    \A i \in DOMAIN items \ Headers :
      LET record == items[i].record
          first == CHOOSE k \in Matching(record) : \A j \in Matching(record) : k <= j
      IN  /\ HeaderOf(i) # 0
          /\ Grouping = "COLLECTION" =>
               /\ Matching(record) # {} => HeaderTitle(i) = record.collections[first].title
               /\ (Matching(record) = {} /\ record.collections # <<>>) =>
                    HeaderTitle(i) = record.collections[1].title
               /\ record.collections = <<>> => HeaderTitle(i) = "Unassigned"
          /\ Grouping = "VENDOR" =>
               HeaderTitle(i) = IF record.vendor = Null THEN "Unassigned" ELSE record.vendor
          /\ Grouping = "PRODUCT_TYPE" =>
               HeaderTitle(i) = IF record.productType = Null THEN "Unassigned"
                                ELSE record.productType

\* grouped by collection with one selected id: a record whose second
\* collection is the selected one stands under that collection's title, a
\* record without collection under "Unassigned"
C34_Witness ==
  /\ arrange = "grouped"
  /\ Grouping = "COLLECTION"
  /\ exportSettings.collectionIds = <<"c1">>
  /\ \E i, j \in DOMAIN items \ Headers :
       /\ Len(items[i].record.collections) = 2
       /\ items[i].record.collections[2].id = "c1"
       /\ HeaderTitle(i) = items[i].record.collections[2].title
       /\ items[j].record.collections = <<>>
       /\ HeaderTitle(j) = "Unassigned"


----------------------------------------------------------------------------
(* Properties of the end of buildImagesZip *)

\* C35: the size of the ZIP file is read (fsPromises.stat is called, and
\* buildImagesZip returns its result) only when archive.finalize() has
\* resolved and the write stream has emitted "close".
C35_SizeAfterClose ==
  zip \in {"stat", "returned"} => archive.finalized /\ archive.closed

\* buildImagesZip has returned the size of an archive that holds an image
\* entry, the manifest and the README
C35_Witness ==
  /\ zip = "returned"
  /\ archive.finalized
  /\ archive.closed
  /\ Len(archive.entries) = 3


----------------------------------------------------------------------------
(* Properties of the covers: from downloadCovers to the archive *)

\* downloadCovers: a record has its local cover path and entry name only
\* after a fetch of its cover was ok and the bytes were stored, never after
\* a missing cover or an exhausted download, and when downloadCovers has
\* returned every record whose fetch was ok has them
CoverFieldsIffPersisted ==
  \A r \in RecordIds :
    /\ records[r].localCoverPath =>
         /\ records[r].hasCover
         /\ hist[r].okAttempt # 0
         /\ IssuesFor(r) = 0
    /\ Returned => (records[r].localCoverPath <=> hist[r].okAttempt # 0)

\* the entry names of the first n records that have a local cover path and
\* an entry name, in record order
RECURSIVE NamesWithCover(_)
NamesWithCover(n) ==
  IF n = 0 THEN <<>>
  ELSE IF n \in WithCover
    THEN Append(NamesWithCover(n - 1), zipParams.records[n].coverFileName)
  ELSE NamesWithCover(n - 1)

\* the names of the image entries, in the order of the archive
ImageEntryNames == [e \in 1..Cardinality(ImageEntries) |-> archive.entries[e].name]

ReadAndComposited(i) ==
  /\ Readable(zipParams.records[i].localCoverPath)
  /\ Overlaid(i) => Decodable(Bytes(zipParams.records[i].localCoverPath))

----------------------------------------------------------------------------
(* Properties of the stored counts *)

\* downloadCovers has written its initial counts (lines 646-656)
ImageStage == pc \in {"workers", "rejected"} /\ "imagesDownloaded" \in DOMAIN job.counts

Count(key) == Get(job.counts, key)

\* C37: in every state of the image stage the stored counts satisfy
\* imagesDownloaded + imagesFailed = productsProcessed and productsProcessed
\* <= productsTotal, productsTotal is the number of records, and no write
\* of incrementCounts changes productsTotal, whatever the interleaving of
\* the workers' reads and writes.
C37_CountsConsistent ==
  /\ [](ImageStage =>
          /\ Count("imagesDownloaded") + Count("imagesFailed") = Count("productsProcessed")
          /\ Count("productsProcessed") <= Count("productsTotal")
          /\ Count("productsTotal") = Len(records))
  /\ [][(\E w \in Workers : IncrementCountsWrite(w)) =>
          Get(job'.counts, "productsTotal") = Get(job.counts, "productsTotal")]_vars

\* the workers are running and the stored counts are those of one download
\* and one failure, of three records
C37_Witness ==
  /\ pc = "workers"
  /\ Count("productsTotal") = 3
  /\ Count("imagesDownloaded") = 1
  /\ Count("imagesFailed") = 1
  /\ Count("productsProcessed") = 2


\* C38: no write of incrementCounts leaves the stored productsProcessed
\* smaller than it was before the write, whatever the interleaving of the
\* workers' reads and writes.  Violated: a worker that read the row before
\* two writes of another worker writes its own `updated` after them, and the
\* stored count goes back from 2 to 1.
C38_ProcessedNeverDecreases ==
  [][(\E w \in Workers : IncrementCountsWrite(w)) =>
       Get(job'.counts, "productsProcessed") >= Get(job.counts, "productsProcessed")]_vars


----------------------------------------------------------------------------
(* Properties of a run that a worker's error has rejected *)

\* C39: once runCatalogJob has rejected, no step writes the job's counts or
\* creates an issue, and once the failed handler has marked the job FAILED
\* no worker is in its loop any more.  Violated: Promise.all rejects with
\* the first worker's error while the other workers go on: they claim the
\* records left in the queue, create issues and write counts, before and
\* after the handler's update.
C39_QuietAfterRejection ==
  /\ [][pc = "rejected" => (job'.counts = job.counts /\ issues' = issues)]_vars
  /\ [](handler = "done" => \A w \in Workers : workers[w].pc \in {"unborn", "done", "threw"})


----------------------------------------------------------------------------
(* Properties of the final states of the job row *)

\* the types of the JobFile rows the run has created, in creation order
FileTypes == [f \in DOMAIN files |-> files[f].type]

\* C40: whenever the status is COMPLETED or PARTIAL, progressPercent is 100
\* and the run has created exactly the JobFile rows MANIFEST, PDF and
\* IMAGES_ZIP, in that order; progressPercent is 100 in no other status; the
\* update that marks the job FAILED leaves progressPercent as the last
\* checkpoint wrote it (0 before the first, else 5, 35, 70 or 85), and no
\* later write changes it.
C40_FinalStates ==
  /\ [](job.status \in {"COMPLETED", "PARTIAL"} =>
          /\ job.progressPercent = 100
          /\ FileTypes = <<"MANIFEST", "PDF", "IMAGES_ZIP">>)
  /\ [](job.progressPercent = 100 => job.status \in {"COMPLETED", "PARTIAL"})
  /\ [](job.status = "FAILED" => job.progressPercent \in {0, 5, 35, 70, 85})
  /\ [][(job'.status = "FAILED") => job'.progressPercent = job.progressPercent]_vars

\* a run with a failed cover has made its final update: PARTIAL at 100 with
\* the three JobFile rows
C40_Witness ==
  /\ job.status = "PARTIAL"
  /\ job.progressPercent = 100
  /\ FileTypes = <<"MANIFEST", "PDF", "IMAGES_ZIP">>
  /\ handler = "idle"

====
